---- MODULE Spec2Model ----
(***************************************************************************)
(* Keyed document store of scrappy_v2 (src/src/storage/handler.py).        *)
(*                                                                         *)
(* The store keeps one JSON document per (scraper_type, identifier) under  *)
(* base_dir/<scraper_type>/<identifier>/data.json.  The model keeps the    *)
(* part of the filesystem the handler touches: the set of directories and  *)
(* the documents, both addressed by their resolved location, a sequence of *)
(* path components below "/".  A path string is the sequence of its        *)
(* "/"-separated pieces, so "a/b" is <<"a","b">>, the empty string is      *)
(* <<"">> and "/tmp/x" is <<"","tmp","x">>.                                *)
(***************************************************************************)
EXTENDS Integers, Sequences, FiniteSets, TLC

VARIABLES
    dirs,       \* the directories that exist
    files,      \* location -> document
    clock,      \* the reading of datetime.now()
    op,         \* the last call made on the store
    ret,        \* what that call returned or raised
    nops,       \* number of calls made
    limit,      \* number of calls the session may make
    pre,        \* what the last call found at its key and what it touched
    savedAt,    \* key -> clock reading of the last save that returned
    deleted,    \* keys deleted with success and not saved since
    onlySaves,  \* every call so far was a save that returned, a load or a list
    disk,       \* one storage path as a save and a reader race on it
    writer,     \* the position of the saving caller in save_data
    reader,     \* the position of the reading caller in load_data / list_saved_data
    passed,     \* the stamped records the saves have written or are writing
    call,       \* the last call of a converter or security function
    out         \* what that call produced

storeVars == <<dirs, files, clock, op, ret, nops, limit, pre, savedAt, deleted, onlySaves>>

raceVars == <<disk, writer, reader, passed>>

pureVars == <<call, out>>

vars == <<storeVars, raceVars, pureVars>>

(***************************************************************************)
(* Bounds of the exploration.                                              *)
(***************************************************************************)
MaxClock == 1
MaxOps == 3
MaxShort == 2

(***************************************************************************)
(* Values: a JSON-like tree, every node carrying its kind.  "obj" is a     *)
(* Python object json cannot serialise (a set, a datetime).                *)
(***************************************************************************)
Str(s) == [kind |-> "str", str |-> s, map |-> << >>]
Num(s) == [kind |-> "num", str |-> s, map |-> << >>]
Obj == [kind |-> "obj", str |-> "object", map |-> << >>]
Map(m) == [kind |-> "map", str |-> "", map |-> m]

EmptyDict == << >>

\* dict.get(key, default)
Get(d, k, default) == IF k \in DOMAIN d THEN d[k] ELSE default

\* d[key] = value
SetItem(d, k, v) == [x \in (DOMAIN d) \cup {k} |-> IF x = k THEN v ELSE d[x]]

\* datetime.now().isoformat() at clock reading t
IsoFormat(t) == "T" \o ToString(t)

(***************************************************************************)
(* Inputs.                                                                 *)
(***************************************************************************)
ScraperTypes == <<"github", "website", "youtube">>

ValidTypes == {ScraperTypes[n] : n \in 1..Len(ScraperTypes)}

InputTypes == {"github", "website", "exe"}

IdA == <<"a">>
IdB == <<"b">>
IdNested == <<"a", "b">>
IdTraversal == <<"..", "website", "a">>

Identifiers == {IdA, IdB, IdNested, IdTraversal}

RecStamped == [name |-> Str("y"), saved_at |-> Str("old")]
RecRepoStr == [repository |-> Str("x")]
RecObject == [name |-> Obj]

Records == {RecStamped, RecRepoStr, RecObject}

(***************************************************************************)
(* Paths.                                                                  *)
(***************************************************************************)
base_dir == <<"base">>

DataFile == "data.json"

Parent(loc) == IF loc = << >> THEN << >> ELSE SubSeq(loc, 1, Len(loc) - 1)

IsPrefix(p, q) == Len(p) <= Len(q) /\ SubSeq(q, 1, Len(p)) = p

IsAbs(path) == Len(path) > 1 /\ path[1] = ""

\* one step of path resolution from location cur
StepTo(cur, seg) ==
    IF seg = "" \/ seg = "." THEN cur
    ELSE IF seg = ".." THEN Parent(cur)
    ELSE Append(cur, seg)

\* resolution of a path by the operating system: every component but the
\* last must be an existing directory
RECURSIVE Resolve(_, _, _, _)
Resolve(ds, path, n, cur) ==
    IF n > Len(path) THEN [ok |-> TRUE, loc |-> cur]
    ELSE IF cur \notin ds THEN [ok |-> FALSE, loc |-> cur]
    ELSE Resolve(ds, path, n + 1, StepTo(cur, path[n]))

\* os.path.exists
PathExists(ds, fs, path) ==
    LET r == Resolve(ds, path, 1, << >>)
    IN r.ok /\ (r.loc \in ds \/ r.loc \in DOMAIN fs)

\* os.makedirs(path, exist_ok=True): creates every missing component;
\* fails when a component is a document
RECURSIVE MakeDirs(_, _, _, _, _)
MakeDirs(ds, fs, path, n, cur) ==
    IF cur \in DOMAIN fs THEN [ok |-> FALSE, dirs |-> ds, loc |-> cur]
    ELSE IF n > Len(path) THEN [ok |-> TRUE, dirs |-> ds \cup {cur}, loc |-> cur]
    ELSE MakeDirs(ds \cup {cur}, fs, path, n + 1, StepTo(cur, path[n]))

\* get_storage_path without its final else: an unknown type gets a directory
get_storage_path_AnyType(scraper_type, identifier) ==
    IF IsAbs(identifier) THEN [ok |-> TRUE, path |-> Tail(identifier)]
    ELSE [ok |-> TRUE, path |-> base_dir \o <<scraper_type>> \o identifier]

\* StorageHandler.get_storage_path: os.path.join(<type dir>, identifier)
get_storage_path(scraper_type, identifier) ==
    IF scraper_type \notin ValidTypes THEN [ok |-> FALSE, path |-> << >>]
    ELSE IF IsAbs(identifier) THEN [ok |-> TRUE, path |-> Tail(identifier)]
    ELSE [ok |-> TRUE, path |-> base_dir \o <<scraper_type>> \o identifier]

(***************************************************************************)
(* Documents: json.dump writes the text piecewise, so a value json cannot  *)
(* serialise leaves a truncated document behind.                           *)
(***************************************************************************)
RECURSIVE Serializable(_)
Serializable(v) ==
    /\ v.kind # "obj"
    /\ \A k \in DOMAIN v.map : Serializable(v.map[k])

JsonDump(data) ==
    IF \A k \in DOMAIN data : Serializable(data[k])
    THEN [complete |-> TRUE, data |-> data]
    ELSE [complete |-> FALSE, data |-> EmptyDict]

JsonLoad(doc) ==
    IF doc.complete THEN [kind |-> "value", val |-> doc.data]
    ELSE [kind |-> "JSONDecodeError", val |-> EmptyDict]

\* the document merged into the one already there instead of replacing it
WriteFile_Merge(fs, loc, doc) ==
    [p \in (DOMAIN fs) \cup {loc} |->
        IF p # loc THEN fs[p]
        ELSE IF loc \in DOMAIN fs /\ fs[loc].complete /\ doc.complete
        THEN [complete |-> TRUE,
              data |-> [k \in (DOMAIN fs[loc].data) \cup (DOMAIN doc.data) |->
                          IF k \in DOMAIN doc.data THEN doc.data[k] ELSE fs[loc].data[k]]]
        ELSE doc]

WriteFile(fs, loc, doc) == [p \in (DOMAIN fs) \cup {loc} |-> IF p = loc THEN doc ELSE fs[p]]

Restrict(f, S) == [p \in S |-> f[p]]

(***************************************************************************)
(* save_data                                                               *)
(***************************************************************************)
\* the stamp bound to a fresh dict instead of being stored into data
Stamp_Rebind(data, t) == [saved_at |-> Str(IsoFormat(t))]

Stamp(data, t) == SetItem(data, "saved_at", Str(IsoFormat(t)))

SaveResult(ds, fs, t, scraper_type, identifier, data) ==
    LET sp == get_storage_path(scraper_type, identifier)
        md == MakeDirs(ds, fs, sp.path, 1, << >>)
        loc == Append(md.loc, DataFile)
        doc == JsonDump(Stamp(data, t))
    IN  IF ~sp.ok
        THEN [kind |-> "ValueError", val |-> << >>, dirs |-> ds, files |-> fs, touched |-> {}]
        ELSE IF ~md.ok
        THEN [kind |-> "OSError", val |-> << >>, dirs |-> md.dirs, files |-> fs,
              touched |-> md.dirs \ ds]
        ELSE IF loc \in md.dirs
        THEN [kind |-> "OSError", val |-> << >>, dirs |-> md.dirs, files |-> fs,
              touched |-> md.dirs \ ds]
        ELSE [kind |-> IF doc.complete THEN "value" ELSE "TypeError",
              val |-> IF doc.complete THEN Append(sp.path, DataFile) ELSE << >>,
              dirs |-> md.dirs,
              files |-> WriteFile(fs, loc, doc),
              touched |-> (md.dirs \ ds) \cup {loc}]

(***************************************************************************)
(* load_data                                                               *)
(***************************************************************************)
\* load_data without its try/except: the parse error reaches the caller
LoadResult_NoCatch(ds, fs, scraper_type, identifier) ==
    LET sp == get_storage_path(scraper_type, identifier)
        data_path == Append(sp.path, DataFile)
        r == Resolve(ds, data_path, 1, << >>)
    IN  IF ~sp.ok THEN [kind |-> "ValueError", val |-> EmptyDict]
        ELSE IF ~PathExists(ds, fs, data_path) THEN [kind |-> "None", val |-> EmptyDict]
        ELSE IF r.loc \notin DOMAIN fs THEN [kind |-> "OSError", val |-> EmptyDict]
        ELSE JsonLoad(fs[r.loc])

LoadResult(ds, fs, scraper_type, identifier) ==
    LET sp == get_storage_path(scraper_type, identifier)
        data_path == Append(sp.path, DataFile)
        r == Resolve(ds, data_path, 1, << >>)
    IN  IF ~sp.ok THEN [kind |-> "ValueError", val |-> EmptyDict]
        ELSE IF ~PathExists(ds, fs, data_path) THEN [kind |-> "None", val |-> EmptyDict]
        ELSE IF r.loc \notin DOMAIN fs THEN [kind |-> "None", val |-> EmptyDict]
        ELSE IF JsonLoad(fs[r.loc]).kind # "value" THEN [kind |-> "None", val |-> EmptyDict]
        ELSE JsonLoad(fs[r.loc])

(***************************************************************************)
(* delete_data                                                             *)
(***************************************************************************)
\* shutil.rmtree of the directory at loc
RmTreeDirs(ds, loc) == {d \in ds : ~IsPrefix(loc, d)}

RmTreeFiles(fs, loc) == Restrict(fs, {p \in DOMAIN fs : ~IsPrefix(loc, p)})

DeleteResult(ds, fs, scraper_type, identifier) ==
    LET sp == get_storage_path(scraper_type, identifier)
        r == Resolve(ds, sp.path, 1, << >>)
    IN  IF ~sp.ok
        THEN [kind |-> "ValueError", val |-> FALSE, dirs |-> ds, files |-> fs, touched |-> {}]
        ELSE IF ~PathExists(ds, fs, sp.path)
        THEN [kind |-> "value", val |-> FALSE, dirs |-> ds, files |-> fs, touched |-> {}]
        ELSE IF r.loc \notin ds
        THEN [kind |-> "value", val |-> FALSE, dirs |-> ds, files |-> fs, touched |-> {}]
        ELSE [kind |-> "value", val |-> TRUE,
              dirs |-> RmTreeDirs(ds, r.loc), files |-> RmTreeFiles(fs, r.loc),
              touched |-> {q \in ds \cup DOMAIN fs : IsPrefix(r.loc, q)}]

(***************************************************************************)
(* list_saved_data                                                         *)
(***************************************************************************)
NoType == ""

ListTypes == ValidTypes \cup {"exe", NoType}

\* StorageHandler._generate_summary; a "repository" or "channel" that is
\* not a mapping has no get method
_generate_summary(scraper_type, data) ==
    LET repo == Get(data, "repository", Map(EmptyDict))
        channel == Get(data, "channel", Map(EmptyDict))
    IN  IF scraper_type = "github"
        THEN IF repo.kind # "map"
             THEN [kind |-> "AttributeError", val |-> EmptyDict]
             ELSE [kind |-> "value",
                   val |-> [name |-> Get(repo.map, "name", Str("unknown")),
                            owner |-> Get(repo.map, "owner", Str("unknown")),
                            files_count |-> Get(data, "files_count", Num("0")),
                            issues_count |-> Get(data, "issues_count", Num("0"))]]
        ELSE IF scraper_type = "website"
        THEN [kind |-> "value",
              val |-> [domain |-> Get(data, "domain", Str("unknown")),
                       pages_crawled |-> Get(data, "pages_crawled", Num("0")),
                       assets_downloaded |-> Get(data, "assets_downloaded", Num("0"))]]
        ELSE IF scraper_type = "youtube"
        THEN IF channel.kind # "map"
             THEN [kind |-> "AttributeError", val |-> EmptyDict]
             ELSE [kind |-> "value",
                   val |-> [handle |-> Get(channel.map, "handle", Str("unknown")),
                            videos_count |-> Get(data, "videos_count", Num("0"))]]
        ELSE [kind |-> "value", val |-> EmptyDict]

TypeDir(scraper_type) == Append(base_dir, scraper_type)

\* the names os.listdir finds in a directory
ListDir(ds, fs, loc) ==
    {p[Len(p)] : p \in {q \in ds \cup DOMAIN fs : Len(q) = Len(loc) + 1 /\ IsPrefix(loc, q)}}

\* os.listdir returns the names in an order of the filesystem's choosing
Orderings(S) ==
    {s \in [1..Cardinality(S) -> S] : \A m, n \in 1..Cardinality(S) : m # n => s[m] # s[n]}

\* the body of the loop over os.listdir: the entry of one name, or nothing
ListEntry(ds, fs, scraper_type, name) ==
    LET data_path == TypeDir(scraper_type) \o <<name, DataFile>>
        r == Resolve(ds, data_path, 1, << >>)
        loaded == IF r.loc \in DOMAIN fs THEN JsonLoad(fs[r.loc])
                  ELSE [kind |-> "OSError", val |-> EmptyDict]
        summary == _generate_summary(scraper_type, loaded.val)
    IN  IF ~PathExists(ds, fs, data_path) THEN << >>
        ELSE IF loaded.kind # "value" THEN << >>
        ELSE IF summary.kind # "value" THEN << >>
        ELSE << [scraper_type |-> scraper_type,
                 identifier |-> <<name>>,
                 path |-> data_path,
                 saved_at |-> Get(loaded.val, "saved_at", Str("unknown")),
                 summary |-> summary.val] >>

RECURSIVE ListNames(_, _, _, _, _)
ListNames(ds, fs, scraper_type, order, n) ==
    IF n > Len(order) THEN << >>
    ELSE ListEntry(ds, fs, scraper_type, order[n]) \o ListNames(ds, fs, scraper_type, order, n + 1)

\* list_saved_data(scraper_type) for one type; order is the listdir order
ListOne(ds, fs, scraper_type, order) ==
    IF scraper_type \notin ValidTypes THEN [kind |-> "ValueError", val |-> << >>]
    ELSE IF TypeDir(scraper_type) \notin ds THEN [kind |-> "FileNotFoundError", val |-> << >>]
    ELSE [kind |-> "value", val |-> ListNames(ds, fs, scraper_type, order, 1)]

\* list_saved_data(None) putting the entries of each type in front of those
\* gathered so far
RECURSIVE ListAll_Prepend(_, _, _, _)
ListAll_Prepend(ds, fs, orders, n) ==
    IF n > Len(ScraperTypes) THEN [kind |-> "value", val |-> << >>]
    ELSE LET head == ListOne(ds, fs, ScraperTypes[n], orders[ScraperTypes[n]])
             rest == ListAll_Prepend(ds, fs, orders, n + 1)
         IN  IF head.kind # "value" THEN head
             ELSE IF rest.kind # "value" THEN rest
             ELSE [kind |-> "value", val |-> rest.val \o head.val]

\* list_saved_data(None): the types in their fixed order, the first failure
\* aborting the whole listing
RECURSIVE ListAll(_, _, _, _)
ListAll(ds, fs, orders, n) ==
    IF n > Len(ScraperTypes) THEN [kind |-> "value", val |-> << >>]
    ELSE LET head == ListOne(ds, fs, ScraperTypes[n], orders[ScraperTypes[n]])
             rest == ListAll(ds, fs, orders, n + 1)
         IN  IF head.kind # "value" THEN head
             ELSE IF rest.kind # "value" THEN rest
             ELSE [kind |-> "value", val |-> head.val \o rest.val]

ListResult(ds, fs, scraper_type, orders) ==
    IF scraper_type = NoType THEN ListAll(ds, fs, orders, 1)
    ELSE ListOne(ds, fs, scraper_type, IF scraper_type \in ValidTypes THEN orders[scraper_type] ELSE << >>)

DirOrders(ds, fs) ==
    [ValidTypes -> UNION {Orderings(ListDir(ds, fs, TypeDir(t))) : t \in ValidTypes}]

ListOrders(ds, fs) ==
    {o \in DirOrders(ds, fs) : \A t \in ValidTypes : o[t] \in Orderings(ListDir(ds, fs, TypeDir(t)))}

(***************************************************************************)
(* The text of a document.  json.dump hands the text to the file piece by  *)
(* piece and the buffered file writes it out whenever its buffer fills, so *)
(* the document on disk grows by runs of tokens; json.load reads until a   *)
(* read returns nothing and parses what it has got.  Tokens stand for      *)
(* stretches of text of one size.                                          *)
(***************************************************************************)
Token(k, v) == [key |-> k, val |-> v]

OpenBrace == Token("{", Str(""))

CloseBrace == Token("}", Str(""))

\* the keys of a record in insertion order; saved_at is stored last
FieldOrder == <<"domain", "pages_crawled", "saved_at">>

RECURSIVE FieldTokens(_, _)
FieldTokens(data, n) ==
    IF n > Len(FieldOrder) THEN << >>
    ELSE IF FieldOrder[n] \in DOMAIN data
    THEN <<Token(FieldOrder[n], data[FieldOrder[n]])>> \o FieldTokens(data, n + 1)
    ELSE FieldTokens(data, n + 1)

\* json.dump: the text of a mapping
JsonText(data) == <<OpenBrace>> \o FieldTokens(data, 1) \o <<CloseBrace>>

\* json.load of a text: one object, opened and closed once, nothing after it
JsonParse(text) ==
    LET inner == 2..(Len(text) - 1)
    IN  IF /\ Len(text) >= 2
           /\ text[1] = OpenBrace
           /\ text[Len(text)] = CloseBrace
           /\ \A n \in inner : text[n] # OpenBrace /\ text[n] # CloseBrace
        THEN [kind |-> "value",
              val |-> [k \in {text[n].key : n \in inner} |->
                          text[CHOOSE n \in inner :
                                  /\ text[n].key = k
                                  /\ \A m \in inner : text[m].key = k => m <= n].val]]
        ELSE [kind |-> "JSONDecodeError", val |-> EmptyDict]

(***************************************************************************)
(* One storage path, base/website/a, with a caller saving to it and a      *)
(* caller loading or listing it at the same time.                          *)
(***************************************************************************)
MaxSaves == 2
MaxReads == 1

RaceType == "website"

RaceOld == [domain |-> Str("old.org"), pages_crawled |-> Num("1")]
RaceNew == [domain |-> Str("new.org"), pages_crawled |-> Num("2")]
RaceShort == [domain |-> Str("new.org")]

RaceRecords == {RaceOld, RaceNew, RaceShort}

NoDisk == [dir |-> FALSE, file |-> FALSE, text |-> << >>]

WriterIdle == [pc |-> "idle", data |-> EmptyDict, pos |-> 0, saves |-> 0]

NoRet == [kind |-> "none", val |-> << >>]

ReaderIdle == [pc |-> "idle", mode |-> "none", buf |-> << >>, ret |-> NoRet, calls |-> 0, mid |-> FALSE]

RaceIdle ==
    /\ disk = NoDisk
    /\ writer = WriterIdle
    /\ reader = ReaderIdle
    /\ passed = {}

NoCall == [name |-> "none"]

PureIdle ==
    /\ call = NoCall
    /\ out = NoCall

(***************************************************************************)
(* The state machine.                                                      *)
(***************************************************************************)
Key(scraper_type, identifier) == <<scraper_type, identifier>>

NoOp == [name |-> "init", type |-> NoType, id |-> << >>, data |-> EmptyDict]

NoPre == [load |-> "none", keys |-> {}, exists |-> FALSE, touched |-> {}, again |-> FALSE]

\* what a call finds at its key before it acts: the outcome a load would
\* have, the keys of the record there, whether the storage path exists, and
\* whether the call repeats a delete that has just returned true
Before(scraper_type, identifier, touched) ==
    LET l == LoadResult(dirs, files, scraper_type, identifier)
        sp == get_storage_path(scraper_type, identifier)
    IN  [load |-> l.kind,
         keys |-> DOMAIN l.val,
         exists |-> sp.ok /\ PathExists(dirs, files, sp.path),
         touched |-> touched,
         again |-> /\ op.name = "delete" /\ op.type = scraper_type /\ op.id = identifier
                   /\ ret.kind = "value" /\ ret.val]

\* StorageHandler.__init__: the base directory and one directory per type;
\* /tmp is part of the machine
StoreEmpty ==
    /\ dirs = {<< >>, <<"tmp">>, base_dir} \cup {TypeDir(t) : t \in ValidTypes}
    /\ files = << >>
    /\ clock = 0
    /\ op = NoOp
    /\ ret = [kind |-> "init", val |-> << >>]
    /\ nops = 0
    /\ pre = NoPre
    /\ savedAt = << >>
    /\ deleted = {}
    /\ onlySaves = TRUE

InitStore ==
    /\ StoreEmpty
    /\ RaceIdle
    /\ PureIdle

\* sessions of at most MaxOps calls
Init == InitStore /\ limit = MaxOps

\* sessions of at most MaxShort calls
InitShort == InitStore /\ limit = MaxShort

Tick ==
    /\ clock < MaxClock
    /\ clock' = clock + 1
    /\ UNCHANGED <<dirs, files, op, ret, nops, limit, pre, savedAt, deleted, onlySaves>>
    /\ UNCHANGED <<raceVars, pureVars>>

Save(scraper_type, identifier, data) ==
    LET r == SaveResult(dirs, files, clock, scraper_type, identifier, data)
        k == Key(scraper_type, identifier)
    IN  /\ nops < limit
        /\ nops' = nops + 1
        /\ dirs' = r.dirs
        /\ files' = r.files
        /\ op' = [name |-> "save", type |-> scraper_type, id |-> identifier, data |-> data]
        /\ ret' = [kind |-> r.kind, val |-> r.val]
        /\ pre' = Before(scraper_type, identifier, r.touched)
        /\ savedAt' = IF r.kind = "value" THEN SetItem(savedAt, k, clock) ELSE savedAt
        /\ deleted' = deleted \ {k}
        /\ onlySaves' = (onlySaves /\ r.kind = "value")
        /\ UNCHANGED <<clock, limit>>
        /\ UNCHANGED <<raceVars, pureVars>>

\* a load that creates the storage path the way save_data does
Load_MakeDirs(scraper_type, identifier) ==
    LET r == LoadResult(dirs, files, scraper_type, identifier)
        sp == get_storage_path(scraper_type, identifier)
    IN  /\ nops < limit
        /\ nops' = nops + 1
        /\ dirs' = IF sp.ok THEN MakeDirs(dirs, files, sp.path, 1, << >>).dirs ELSE dirs
        /\ op' = [name |-> "load", type |-> scraper_type, id |-> identifier, data |-> EmptyDict]
        /\ ret' = r
        /\ pre' = Before(scraper_type, identifier, {})
        /\ UNCHANGED <<files, clock, limit, savedAt, deleted, onlySaves>>
        /\ UNCHANGED <<raceVars, pureVars>>

Load(scraper_type, identifier) ==
    LET r == LoadResult(dirs, files, scraper_type, identifier)
    IN  /\ nops < limit
        /\ nops' = nops + 1
        /\ op' = [name |-> "load", type |-> scraper_type, id |-> identifier, data |-> EmptyDict]
        /\ ret' = r
        /\ pre' = Before(scraper_type, identifier, {})
        /\ UNCHANGED <<dirs, files, clock, limit, savedAt, deleted, onlySaves>>
        /\ UNCHANGED <<raceVars, pureVars>>

Delete(scraper_type, identifier) ==
    LET r == DeleteResult(dirs, files, scraper_type, identifier)
        k == Key(scraper_type, identifier)
    IN  /\ nops < limit
        /\ nops' = nops + 1
        /\ dirs' = r.dirs
        /\ files' = r.files
        /\ op' = [name |-> "delete", type |-> scraper_type, id |-> identifier, data |-> EmptyDict]
        /\ ret' = [kind |-> r.kind, val |-> r.val]
        /\ pre' = Before(scraper_type, identifier, r.touched)
        /\ deleted' = IF r.kind = "value" /\ r.val THEN deleted \cup {k} ELSE deleted
        /\ onlySaves' = FALSE
        /\ UNCHANGED <<clock, limit, savedAt>>
        /\ UNCHANGED <<raceVars, pureVars>>

List(scraper_type, orders) ==
    /\ nops < limit
    /\ nops' = nops + 1
    /\ op' = [name |-> "list", type |-> scraper_type, id |-> << >>, data |-> EmptyDict]
    /\ ret' = ListResult(dirs, files, scraper_type, orders)
    /\ pre' = NoPre
    /\ UNCHANGED <<dirs, files, clock, limit, savedAt, deleted, onlySaves>>
    /\ UNCHANGED <<raceVars, pureVars>>

Next ==
    \/ Tick
    \/ \E t \in InputTypes, i \in Identifiers, d \in Records : Save(t, i, d)
    \/ \E t \in InputTypes, i \in Identifiers : Load(t, i)
    \/ \E t \in InputTypes, i \in Identifiers : Delete(t, i)
    \/ \E t \in ListTypes, o \in ListOrders(dirs, files) : List(t, o)

Spec == Init /\ [][Next]_vars

SpecShort == InitShort /\ [][Next]_vars

(***************************************************************************)
(* Sessions on identifiers that name the type directory itself ("") or a   *)
(* place inside the storage path of another identifier ("a/data.json").    *)
(***************************************************************************)
MaxPaths == 3

IdEmpty == <<"">>
IdInDocument == <<"a", DataFile>>

PathIdentifiers == {IdA, IdEmpty, IdInDocument}

PathTypes == {"github", "website"}

InitPaths == InitStore /\ limit = MaxPaths

NextPaths ==
    \/ \E t \in PathTypes, i \in PathIdentifiers : Save(t, i, RecStamped)
    \/ \E t \in PathTypes, i \in PathIdentifiers : Load(t, i)
    \/ \E t \in PathTypes, i \in PathIdentifiers : Delete(t, i)
    \/ \E t \in PathTypes \cup {NoType}, o \in ListOrders(dirs, files) : List(t, o)

SpecPaths == InitPaths /\ [][NextPaths]_vars

(***************************************************************************)
(* save_data racing with load_data or list_saved_data on one storage path. *)
(* Each action is one step a caller takes between two points at which the  *)
(* other caller may run.                                                   *)
(***************************************************************************)
\* a step of the writer while the reader is inside its call
Interleaved(r) == [r EXCEPT !.mid = r.mid \/ r.pc \in {"listed", "open"}]

\* save_data up to os.makedirs
SaveMakeDirs(data) ==
    /\ writer.pc = "idle"
    /\ writer.saves < MaxSaves
    /\ disk' = [disk EXCEPT !.dir = TRUE]
    /\ writer' = [pc |-> "made", data |-> data, pos |-> 0, saves |-> writer.saves + 1]
    /\ reader' = Interleaved(reader)
    /\ UNCHANGED <<passed, storeVars, pureVars>>

\* the stamp, and open(data_path, 'w'), which empties the document
SaveOpen ==
    /\ writer.pc = "made"
    /\ disk' = [disk EXCEPT !.file = TRUE, !.text = << >>]
    /\ writer' = [writer EXCEPT !.pc = "writing", !.data = Stamp(writer.data, writer.saves)]
    /\ passed' = passed \cup {Stamp(writer.data, writer.saves)}
    /\ reader' = Interleaved(reader)
    /\ UNCHANGED <<storeVars, pureVars>>

\* json.dump: the next n tokens reach the disk; the last ones do so when the
\* file is closed, and save_data returns
SaveWrite(n) ==
    /\ writer.pc = "writing"
    /\ n \in 1..(Len(JsonText(writer.data)) - writer.pos)
    /\ disk' = [disk EXCEPT !.text = SubSeq(disk.text, 1, writer.pos)
                                      \o SubSeq(JsonText(writer.data), writer.pos + 1, writer.pos + n)]
    /\ writer' = [writer EXCEPT !.pos = writer.pos + n,
                                !.pc = IF writer.pos + n = Len(JsonText(writer.data))
                                       THEN "idle" ELSE "writing"]
    /\ reader' = Interleaved(reader)
    /\ UNCHANGED <<passed, storeVars, pureVars>>

\* the entry list_saved_data appends for a record it has read
RaceEntry(data) ==
    LET summary == _generate_summary(RaceType, data)
    IN  IF summary.kind # "value" THEN << >>
        ELSE << [scraper_type |-> RaceType,
                 identifier |-> IdA,
                 path |-> TypeDir(RaceType) \o IdA \o <<DataFile>>,
                 saved_at |-> Get(data, "saved_at", Str("unknown")),
                 summary |-> summary.val] >>

\* load_data: os.path.exists, then open(data_path, 'r')
LoadOpen ==
    /\ reader.pc = "idle"
    /\ reader.calls < MaxReads
    /\ reader' = [pc |-> IF disk.file THEN "open" ELSE "done",
                  mode |-> "load",
                  buf |-> << >>,
                  ret |-> IF disk.file THEN NoRet ELSE [kind |-> "None", val |-> EmptyDict],
                  calls |-> reader.calls + 1,
                  mid |-> writer.pc # "idle"]
    /\ UNCHANGED <<disk, writer, passed, storeVars, pureVars>>

\* list_saved_data: os.listdir of the type directory
ListListDir ==
    /\ reader.pc = "idle"
    /\ reader.calls < MaxReads
    /\ reader' = [pc |-> IF disk.dir THEN "listed" ELSE "done",
                  mode |-> "list",
                  buf |-> << >>,
                  ret |-> IF disk.dir THEN NoRet ELSE [kind |-> "value", val |-> << >>],
                  calls |-> reader.calls + 1,
                  mid |-> writer.pc # "idle"]
    /\ UNCHANGED <<disk, writer, passed, storeVars, pureVars>>

\* list_saved_data: os.path.exists of the name found, then open(data_path, 'r')
ListOpen ==
    /\ reader.pc = "listed"
    /\ reader' = [reader EXCEPT !.pc = IF disk.file THEN "open" ELSE "done",
                                !.ret = IF disk.file THEN NoRet ELSE [kind |-> "value", val |-> << >>],
                                !.mid = reader.mid \/ writer.pc # "idle"]
    /\ UNCHANGED <<disk, writer, passed, storeVars, pureVars>>

\* what the call returns once json.load has the text
ReadReturn(mode, text) ==
    LET parsed == JsonParse(text)
    IN  IF mode = "load"
        THEN IF parsed.kind = "value" THEN parsed ELSE [kind |-> "None", val |-> EmptyDict]
        ELSE IF parsed.kind = "value" THEN [kind |-> "value", val |-> RaceEntry(parsed.val)]
        ELSE [kind |-> "value", val |-> << >>]

\* json.load: one read from where the last one stopped up to the end of the
\* document; a read that gets nothing ends the reading
ReadChunk ==
    LET got == SubSeq(disk.text, Len(reader.buf) + 1, Len(disk.text))
    IN  /\ reader.pc = "open"
        /\ reader' = IF got = << >>
                     THEN [reader EXCEPT !.pc = "done",
                                         !.ret = ReadReturn(reader.mode, reader.buf),
                                         !.mid = reader.mid \/ writer.pc # "idle"]
                     ELSE [reader EXCEPT !.buf = reader.buf \o got,
                                         !.mid = reader.mid \/ writer.pc # "idle"]
        /\ UNCHANGED <<disk, writer, passed, storeVars, pureVars>>

InitRace == InitStore /\ limit = 0

NextRace ==
    \/ \E d \in RaceRecords : SaveMakeDirs(d)
    \/ SaveOpen
    \/ \E n \in 1..(Len(FieldOrder) + 2) : SaveWrite(n)
    \/ LoadOpen
    \/ ListListDir
    \/ ListOpen
    \/ ReadChunk

SpecRace == InitRace /\ [][NextRace]_vars

(***************************************************************************)
(* FormatConverter (src/src/formatters/converter.py).  A value is a tree   *)
(* whose mappings and lists keep their items in order: a mapping is the    *)
(* sequence of its (key, value) items in insertion order.                  *)
(***************************************************************************)
Item(k, v) == [key |-> k, val |-> v]

VStr(s) == [kind |-> "str", str |-> s, items |-> << >>]
VNum(s) == [kind |-> "num", str |-> s, items |-> << >>]
VBool(s) == [kind |-> "bool", str |-> s, items |-> << >>]
VNull == [kind |-> "null", str |-> "None", items |-> << >>]
VList(elems) == [kind |-> "list", str |-> "", items |-> [n \in 1..Len(elems) |-> Item("", elems[n])]]
VDict(items) == [kind |-> "dict", str |-> "", items |-> items]

\* dict.keys() in order
DictKeys(items) == [n \in 1..Len(items) |-> items[n].key]

HasKey(items, k) == \E n \in 1..Len(items) : items[n].key = k

\* d[k] = v on an ordered dict: a key already there keeps its place
DictSet(items, k, v) ==
    IF HasKey(items, k)
    THEN [n \in 1..Len(items) |-> IF items[n].key = k THEN Item(k, v) ELSE items[n]]
    ELSE Append(items, Item(k, v))

\* d.get(k, default)
DictGet(items, k, default) ==
    IF HasKey(items, k) THEN items[CHOOSE n \in 1..Len(items) : items[n].key = k].val
    ELSE default

\* isinstance(item, (str, int, float, bool))
IsScalar(v) == v.kind \in {"str", "num", "bool"}

\* repr(value) and str(value)
RECURSIVE PyRepr(_), ReprItems(_, _, _)
ReprItems(items, n, isDict) ==
    IF n > Len(items) THEN ""
    ELSE (IF n > 1 THEN ", " ELSE "")
         \o (IF isDict THEN "'" \o items[n].key \o "': " ELSE "")
         \o PyRepr(items[n].val)
         \o ReprItems(items, n + 1, isDict)

PyRepr(v) ==
    IF v.kind = "str" THEN "'" \o v.str \o "'"
    ELSE IF v.kind = "list" THEN "[" \o ReprItems(v.items, 1, FALSE) \o "]"
    ELSE IF v.kind = "dict" THEN "{" \o ReprItems(v.items, 1, TRUE) \o "}"
    ELSE v.str

PyStr(v) == IF v.kind = "str" THEN v.str ELSE PyRepr(v)

\* ", ".join(str(item) for item in value)
RECURSIVE JoinStr(_, _)
JoinStr(items, n) ==
    IF n > Len(items) THEN ""
    ELSE (IF n > 1 THEN ", " ELSE "") \o PyStr(items[n].val) \o JoinStr(items, n + 1)

\* FormatConverter._flatten_dict: the flat dict after the call
RECURSIVE _flatten_dict(_, _, _), FlattenFrom(_, _, _, _)
FlattenFrom(items, n, flat_dict, prefix) ==
    IF n > Len(items) THEN flat_dict
    ELSE LET key == items[n].key
             value == items[n].val
             flat == IF value.kind = "dict"
                     THEN _flatten_dict(value, flat_dict, prefix \o key \o "_")
                     ELSE IF value.kind = "list"
                     THEN IF \A m \in 1..Len(value.items) : IsScalar(value.items[m].val)
                          THEN DictSet(flat_dict, prefix \o key, VStr(JoinStr(value.items, 1)))
                          ELSE DictSet(flat_dict, prefix \o key, VStr(PyStr(value)))
                     ELSE DictSet(flat_dict, prefix \o key, value)
         IN  FlattenFrom(items, n + 1, flat, prefix)

_flatten_dict(nested_dict, flat_dict, prefix) == FlattenFrom(nested_dict.items, 1, flat_dict, prefix)

\* the first field that is a list whose elements are all dicts, or 0
RowSource(data) ==
    LET qualifies(n) == /\ data.items[n].val.kind = "list"
                        /\ \A m \in 1..Len(data.items[n].val.items) :
                              data.items[n].val.items[m].val.kind = "dict"
    IN  IF \E n \in 1..Len(data.items) : qualifies(n)
        THEN CHOOSE n \in 1..Len(data.items) :
                 qualifies(n) /\ \A m \in 1..(n - 1) : ~qualifies(m)
        ELSE 0

\* _flatten_data with the flat dict being the caller's mapping itself
_flatten_data_InPlace(data) ==
    IF RowSource(data) # 0
    THEN [rows |-> [m \in 1..Len(data.items[RowSource(data)].val.items) |->
                       data.items[RowSource(data)].val.items[m].val],
          data |-> data]
    ELSE [rows |-> <<VDict(_flatten_dict(data, data.items, ""))>>,
          data |-> VDict(_flatten_dict(data, data.items, ""))]

\* FormatConverter._flatten_data: the rows, and the caller's mapping as the
\* call leaves it (flat_dict is a new dict, the rows are not copied)
_flatten_data(data) ==
    IF RowSource(data) # 0
    THEN [rows |-> [m \in 1..Len(data.items[RowSource(data)].val.items) |->
                       data.items[RowSource(data)].val.items[m].val],
          data |-> data]
    ELSE [rows |-> <<VDict(_flatten_dict(data, << >>, ""))>>,
          data |-> data]

\* what csv.writer puts in a cell: nothing for None, str(value) otherwise
CsvCell(v) == IF v.kind = "null" THEN "" ELSE PyStr(v)

\* csv.DictWriter.writerows: a row with a key outside fieldnames raises
\* ValueError, a key the row lacks gives an empty cell
DictRow(fieldnames, row) ==
    [n \in 1..Len(fieldnames) |->
        IF HasKey(row.items, fieldnames[n])
        THEN CsvCell(DictGet(row.items, fieldnames[n], VNull))
        ELSE ""]

RowFits(fieldnames, row) ==
    \A n \in 1..Len(row.items) : \E m \in 1..Len(fieldnames) : fieldnames[m] = row.items[n].key

RECURSIVE WriteRows(_, _, _)
WriteRows(fieldnames, rows, n) ==
    IF n > Len(rows) THEN [ok |-> TRUE, lines |-> << >>]
    ELSE IF ~RowFits(fieldnames, rows[n]) THEN [ok |-> FALSE, lines |-> << >>]
    ELSE LET rest == WriteRows(fieldnames, rows, n + 1)
         IN  [ok |-> rest.ok, lines |-> <<DictRow(fieldnames, rows[n])>> \o rest.lines]

\* the Key,Value dump of the top-level mapping
KeyValueRows(data) ==
    <<<<"Key", "Value">>>> \o [n \in 1..Len(data.items) |-> <<data.items[n].key, PyStr(data.items[n].val)>>]

\* os.path.join(self.output_dir, f"{base_filename}.<extension>")
OutputPath(base_filename, extension) == <<"output", base_filename \o "." \o extension>>

\* FormatConverter._convert_to_csv
_convert_to_csv(data, base_filename) ==
    LET flat == _flatten_data(data)
        flattened_data == flat.rows
        fieldnames == DictKeys(flattened_data[1].items)
        written == WriteRows(fieldnames, flattened_data, 1)
    IN  IF flattened_data # << >>
        THEN [kind |-> IF written.ok THEN "value" ELSE "ValueError",
              path |-> OutputPath(base_filename, "csv"),
              content |-> [form |-> "csv", lines |-> <<fieldnames>> \o written.lines, tree |-> VNull],
              data |-> flat.data]
        ELSE [kind |-> "value",
              path |-> OutputPath(base_filename, "csv"),
              content |-> [form |-> "csv", lines |-> KeyValueRows(flat.data), tree |-> VNull],
              data |-> flat.data]

\* ' ' * n
RECURSIVE Spaces(_)
Spaces(n) == IF n <= 0 THEN "" ELSE " " \o Spaces(n - 1)

\* FormatConverter._write_dict_as_text: the text the calls of file.write make
RECURSIVE _write_dict_as_text(_, _), WriteItems(_, _, _), WriteList(_, _, _)
WriteList(items, n, indent) ==
    IF n > Len(items) THEN ""
    ELSE (IF items[n].val.kind = "dict"
          THEN Spaces(indent + 2) \o "- \n" \o _write_dict_as_text(items[n].val, indent + 4)
          ELSE Spaces(indent + 2) \o "- " \o PyStr(items[n].val) \o "\n")
         \o WriteList(items, n + 1, indent)

WriteItems(items, n, indent) ==
    IF n > Len(items) THEN ""
    ELSE (IF items[n].val.kind = "dict"
          THEN Spaces(indent) \o items[n].key \o ":\n" \o _write_dict_as_text(items[n].val, indent + 2)
          ELSE IF items[n].val.kind = "list"
          THEN Spaces(indent) \o items[n].key \o ":\n" \o WriteList(items[n].val.items, 1, indent)
          ELSE Spaces(indent) \o items[n].key \o ": " \o PyStr(items[n].val) \o "\n")
         \o WriteItems(items, n + 1, indent)

\* the text with every block written at the indent of the top level
_write_dict_as_text_NoIndent(data, indent) == WriteItems(data.items, 1, 0)

_write_dict_as_text(data, indent) == WriteItems(data.items, 1, indent)

\* FormatConverter._convert_to_txt
_convert_to_txt(data, base_filename) ==
    [kind |-> "value",
     path |-> OutputPath(base_filename, "txt"),
     content |-> [form |-> "txt", lines |-> <<<<_write_dict_as_text(data, 0)>>>>, tree |-> VNull],
     data |-> data]

\* FormatConverter._convert_to_json: json.dump keeps order and nesting
_convert_to_json(data, base_filename) ==
    [kind |-> "value",
     path |-> OutputPath(base_filename, "json"),
     content |-> [form |-> "json", lines |-> << >>, tree |-> data],
     data |-> data]

\* FormatConverter._convert_to_yaml: yaml.dump(..., sort_keys=False)
_convert_to_yaml(data, base_filename) ==
    [kind |-> "value",
     path |-> OutputPath(base_filename, "yaml"),
     content |-> [form |-> "yaml", lines |-> << >>, tree |-> data],
     data |-> data]

\* FormatConverter._dict_to_xml: the children appended to the parent element
Elem(tag, children) == [kind |-> "elem", str |-> tag, items |-> children]

TextNode(text) == [kind |-> "text", str |-> text, items |-> << >>]

RECURSIVE _dict_to_xml(_)
_dict_to_xml(data) ==
    IF data.kind = "dict"
    THEN [n \in 1..Len(data.items) |->
             Item("", IF data.items[n].val.kind \in {"dict", "list"}
                      THEN Elem(data.items[n].key, _dict_to_xml(data.items[n].val))
                      ELSE Elem(data.items[n].key, <<Item("", TextNode(PyStr(data.items[n].val)))>>))]
    ELSE IF data.kind = "list"
    THEN [n \in 1..Len(data.items) |-> Item("", Elem("item", _dict_to_xml(data.items[n].val)))]
    ELSE <<Item("", TextNode(PyStr(data)))>>

\* FormatConverter._convert_to_xml
_convert_to_xml(data, base_filename) ==
    [kind |-> "value",
     path |-> OutputPath(base_filename, "xml"),
     content |-> [form |-> "xml", lines |-> << >>, tree |-> Elem("root", _dict_to_xml(data))],
     data |-> data]

\* str.lower on the letters of a format name
UpperCase == <<"A", "B", "C", "D", "E", "F", "G", "H", "I", "J", "K", "L", "M",
               "N", "O", "P", "Q", "R", "S", "T", "U", "V", "W", "X", "Y", "Z">>

LowerCase == <<"a", "b", "c", "d", "e", "f", "g", "h", "i", "j", "k", "l", "m",
               "n", "o", "p", "q", "r", "s", "t", "u", "v", "w", "x", "y", "z">>

LowerChar(c) ==
    IF \E n \in 1..Len(UpperCase) : UpperCase[n] = c
    THEN LowerCase[CHOOSE n \in 1..Len(UpperCase) : UpperCase[n] = c]
    ELSE c

\* the name compared as it was given
Lower_AsGiven(chars) == chars

Lower(chars) == [n \in 1..Len(chars) |-> LowerChar(chars[n])]

\* the string a sequence of characters spells
RECURSIVE Spell(_)
Spell(chars) == IF chars = << >> THEN "" ELSE Head(chars) \o Spell(Tail(chars))

\* one round of the loop of convert: the conversion the name selects, if any
ConvertOne(data, fmt, base_filename) ==
    LET name == Spell(Lower(fmt))
    IN  IF name = "json" THEN <<_convert_to_json(data, base_filename)>>
        ELSE IF name = "csv" THEN <<_convert_to_csv(data, base_filename)>>
        ELSE IF name = "txt" THEN <<_convert_to_txt(data, base_filename)>>
        ELSE IF name = "yaml" THEN <<_convert_to_yaml(data, base_filename)>>
        ELSE IF name = "xml" THEN <<_convert_to_xml(data, base_filename)>>
        ELSE << >>

\* FormatConverter.convert from the n-th format on; acc holds the results
\* and the files written so far, data is the caller's mapping
RECURSIVE convert(_, _, _, _, _)
convert(data, formats, base_filename, n, acc) ==
    IF n > Len(formats) THEN [kind |-> "value", results |-> acc.results, written |-> acc.written, data |-> data]
    ELSE LET one == ConvertOne(data, formats[n], base_filename)
             name == Spell(Lower(formats[n]))
         IN  IF one = << >> THEN convert(data, formats, base_filename, n + 1, acc)
             ELSE IF one[1].kind # "value"
             THEN [kind |-> one[1].kind, results |-> << >>,
                   written |-> SetItem(acc.written, one[1].path, one[1].content),
                   data |-> one[1].data]
             ELSE convert(one[1].data, formats, base_filename, n + 1,
                          [results |-> SetItem(acc.results, name, one[1].path),
                           written |-> SetItem(acc.written, one[1].path, one[1].content)])

(***************************************************************************)
(* Calls of convert: the mappings, format lists and base names tried.      *)
(***************************************************************************)
MaxFormats == 2

FmtJson == <<"j", "s", "o", "n">>
FmtJsonUpper == <<"J", "S", "O", "N">>
FmtCsv == <<"C", "s", "v">>
FmtTxt == <<"t", "x", "t">>
FmtYaml == <<"y", "a", "m", "l">>
FmtXml == <<"x", "m", "l">>
FmtExe == <<"e", "x", "e">>
FmtYml == <<"y", "m", "l">>

FormatNames == {FmtJson, FmtJsonUpper, FmtCsv, FmtTxt, FmtYaml, FmtXml, FmtExe, FmtYml}

Supported == {"json", "csv", "txt", "yaml", "xml"}

FormatLists == UNION {[1..n -> FormatNames] : n \in 1..MaxFormats}

BaseNames == {"x", "report"}

\* {"meta": "x", "items": [{"a": 1}, {"a": 2}]}
ValTieBreak ==
    VDict(<<Item("meta", VStr("x")),
            Item("items", VList(<<VDict(<<Item("a", VNum("1"))>>), VDict(<<Item("a", VNum("2"))>>)>>))>>)

\* {"a": {"b": 1}}
ValNested == VDict(<<Item("a", VDict(<<Item("b", VNum("1"))>>))>>)

\* {"items": [{"a": 1}, {"b": 2}]}
ValRagged ==
    VDict(<<Item("items", VList(<<VDict(<<Item("a", VNum("1"))>>), VDict(<<Item("b", VNum("2"))>>)>>))>>)

\* {"items": [{"a": 1, "b": 2}, {"b": 3}]}
ValShortRow ==
    VDict(<<Item("items", VList(<<VDict(<<Item("a", VNum("1")), Item("b", VNum("2"))>>),
                                  VDict(<<Item("b", VNum("3"))>>)>>))>>)

\* {"tags": [], "items": [{"a": 1}]}
ValEmptyFirst ==
    VDict(<<Item("tags", VList(<< >>)),
            Item("items", VList(<<VDict(<<Item("a", VNum("1"))>>)>>))>>)

\* {"tags": [], "a": {"b": 1}}
ValEmptyList == VDict(<<Item("tags", VList(<< >>)), Item("a", VDict(<<Item("b", VNum("1"))>>))>>)

\* {}
ValEmpty == VDict(<< >>)

\* {"a": [1, "x", true], "b": [1, null], "c": [1, [2]], "n": null}
ValLists ==
    VDict(<<Item("a", VList(<<VNum("1"), VStr("x"), VBool("True")>>)),
            Item("b", VList(<<VNum("1"), VNull>>)),
            Item("c", VList(<<VNum("1"), VList(<<VNum("2")>>)>>)),
            Item("n", VNull)>>)

\* {"a_b": 1, "a": {"b": 2}}
ValCollide == VDict(<<Item("a_b", VNum("1")), Item("a", VDict(<<Item("b", VNum("2"))>>))>>)

\* {"a": [{"b": 1}, 2, [3]], "e": {}, "l": [], "n": null, "t": true}
ValMixed ==
    VDict(<<Item("a", VList(<<VDict(<<Item("b", VNum("1"))>>), VNum("2"), VList(<<VNum("3")>>)>>)),
            Item("e", VDict(<< >>)),
            Item("l", VList(<< >>)),
            Item("n", VNull),
            Item("t", VBool("True"))>>)

\* {"a": {"b": [{"c": {"d": 1}}]}}
ValDeep ==
    VDict(<<Item("a", VDict(<<Item("b", VList(<<VDict(<<Item("c", VDict(<<Item("d", VNum("1"))>>))>>)>>))>>))>>)

\* {"first": [{"a": 1}], "second": [{"b": 2}]}
ValTwoSources ==
    VDict(<<Item("first", VList(<<VDict(<<Item("a", VNum("1"))>>)>>)),
            Item("second", VList(<<VDict(<<Item("b", VNum("2"))>>)>>))>>)

ConvValues ==
    {ValTieBreak, ValNested, ValRagged, ValShortRow, ValEmptyFirst, ValEmptyList, ValEmpty,
     ValLists, ValCollide, ValMixed, ValDeep, ValTwoSources}

NoFiles == [results |-> << >>, written |-> << >>]

\* a caller about to call convert(data, formats, base_filename)
InitConvert ==
    /\ StoreEmpty
    /\ limit = 0
    /\ RaceIdle
    /\ call \in [name : {"convert"}, data : ConvValues, formats : FormatLists, base : BaseNames]
    /\ out = NoCall

Convert ==
    /\ call.name = "convert"
    /\ out = NoCall
    /\ out' = [name |-> "convert"] @@ convert(call.data, call.formats, call.base, 1, NoFiles)
    /\ UNCHANGED <<call, storeVars, raceVars>>

SpecConvert == InitConvert /\ [][Convert]_vars

(***************************************************************************)
(* The facade (src/main.py): scrape_github, scrape_website, scrape_youtube *)
(* fetch a record, save it to the store and convert it.  The scraper is a  *)
(* source of records of the shape its crawl method returns.                *)
(***************************************************************************)
MaxScrapes == 2

\* the stored form of a value: a mapping by its keys, a list by its positions
RECURSIVE ToStored(_)
ToStored(v) ==
    IF v.kind = "dict"
    THEN Map([k \in {v.items[n].key : n \in 1..Len(v.items)} |-> ToStored(DictGet(v.items, k, VNull))])
    ELSE IF v.kind = "list"
    THEN [kind |-> "list", str |-> "", map |-> [n \in 1..Len(v.items) |-> ToStored(v.items[n].val)]]
    ELSE [kind |-> v.kind, str |-> v.str, map |-> << >>]

\* the record a caller passes to save_data, as the store holds it
ToRecord(data) == ToStored(data).map

\* the stamp put on a copy, the caller's record left as it was
StampInPlace_OnCopy(data, t) == data

\* data['saved_at'] = ... on the caller's own record
StampInPlace(data, t) == VDict(DictSet(data.items, "saved_at", VStr(IsoFormat(t))))

\* GitHubScraper.crawl_repository
FetchedGithub ==
    VDict(<<Item("repository", VDict(<<Item("owner", VStr("o")), Item("name", VStr("r"))>>)),
            Item("files_count", VNum("0")),
            Item("crawl_date", VStr("D"))>>)

\* WebsiteScraper.crawl_website: the first page is always among page_urls,
\* asset_urls is empty when no asset was downloaded
FetchedWebsite ==
    VDict(<<Item("domain", VStr("a")),
            Item("pages_crawled", VNum("1")),
            Item("page_urls", VList(<<VStr("u")>>)),
            Item("asset_urls", VList(<<VStr("v")>>))>>)

FetchedWebsiteNoAssets ==
    VDict(<<Item("domain", VStr("a")),
            Item("pages_crawled", VNum("1")),
            Item("page_urls", VList(<<VStr("u")>>)),
            Item("asset_urls", VList(<< >>))>>)

\* YouTubeScraper.crawl_channel
FetchedYoutube ==
    VDict(<<Item("channel", VDict(<<Item("handle", VStr("h"))>>)),
            Item("videos_count", VNum("0"))>>)

Fetched(scraper_type) ==
    CASE scraper_type = "github" -> {FetchedGithub}
      [] scraper_type = "website" -> {FetchedWebsite, FetchedWebsiteNoAssets}
      [] scraper_type = "youtube" -> {FetchedYoutube}

\* the identifiers the facade derives from the URL: owner_name, the netloc
\* of the URL (empty for a URL without "//"), the channel handle
ScrapeKeys ==
    {<<"github", "o_r">>, <<"website", "a">>, <<"website", "">>, <<"website", DataFile>>,
     <<"youtube", "h">>}

ScrapeFormats == {<<FmtJson>>, <<FmtCsv, FmtTxt>>, <<FmtYaml, FmtXml>>}

NoScrape == [name |-> "scrape", pc |-> "idle", scrapes |-> 0]

InitFacade ==
    /\ StoreEmpty
    /\ limit = 0
    /\ RaceIdle
    /\ call = NoScrape
    /\ out = NoCall

\* scrape_<type>(url, output_formats) up to the return of the crawl
Fetch(key, formats, data) ==
    /\ call.name = "scrape"
    /\ call.pc \in {"idle", "returned", "raised"}
    /\ call.scrapes < MaxScrapes
    /\ data \in Fetched(key[1])
    /\ call' = [name |-> "scrape", pc |-> "fetched", scrapes |-> call.scrapes + 1,
                type |-> key[1], identifier |-> key[2], formats |-> formats]
    /\ out' = [name |-> "scrape", kind |-> "none", data |-> data, stamp |-> "none",
               results |-> << >>, written |-> << >>]
    /\ UNCHANGED <<storeVars, raceVars>>

\* self.storage.save_data(type, identifier, data): the record is stamped once
\* the storage path is made, and an error of save_data leaves the facade
ScrapeSave ==
    LET r == SaveResult(dirs, files, clock, call.type, <<call.identifier>>, ToRecord(out.data))
        made == MakeDirs(dirs, files, get_storage_path(call.type, <<call.identifier>>).path, 1, << >>)
    IN  /\ call.name = "scrape"
        /\ call.pc = "fetched"
        /\ dirs' = r.dirs
        /\ files' = r.files
        /\ call' = [call EXCEPT !.pc = IF r.kind = "value" THEN "saved" ELSE "raised"]
        /\ out' = [out EXCEPT !.kind = r.kind,
                              !.data = IF made.ok THEN StampInPlace(out.data, clock) ELSE out.data,
                              !.stamp = IF r.kind = "value" THEN IsoFormat(clock) ELSE "none"]
        /\ UNCHANGED <<clock, op, ret, nops, limit, pre, savedAt, deleted, onlySaves, raceVars>>

\* self.converter.convert(data, output_formats, f"<type>_<identifier>") and
\* the return of the result
ScrapeConvert ==
    LET c == convert(out.data, call.formats, call.type \o "_" \o call.identifier, 1, NoFiles)
    IN  /\ call.name = "scrape"
        /\ call.pc = "saved"
        /\ call' = [call EXCEPT !.pc = IF c.kind = "value" THEN "returned" ELSE "raised"]
        /\ out' = [out EXCEPT !.kind = c.kind, !.data = c.data,
                              !.results = c.results, !.written = c.written]
        /\ UNCHANGED <<storeVars, raceVars>>

NextFacade ==
    \/ Tick
    \/ \E key \in ScrapeKeys, f \in ScrapeFormats : \E d \in Fetched(key[1]) : Fetch(key, f, d)
    \/ ScrapeSave
    \/ ScrapeConvert

SpecFacade == InitFacade /\ [][NextFacade]_vars

(***************************************************************************)
(* SecurityManager (src/src/utils/security.py).  A string is the sequence  *)
(* of its characters; a character outside ASCII is written by its code     *)
(* point.                                                                  *)
(***************************************************************************)
\* s.startswith(p)
StartsWith(s, p) == Len(p) <= Len(s) /\ SubSeq(s, 1, Len(p)) = p

\* p in s
Contains(s, p) == \E n \in 1..(Len(s) - Len(p) + 1) : SubSeq(s, n, n + Len(p) - 1) = p

\* s.split('/') from the n-th character on, cur being the piece begun
RECURSIVE Split(_, _, _)
Split(s, n, cur) ==
    IF n > Len(s) THEN <<cur>>
    ELSE IF s[n] = "/" THEN <<cur>> \o Split(s, n + 1, << >>)
    ELSE Split(s, n + 1, Append(cur, s[n]))

\* '/'.join(comps)
RECURSIVE Join(_, _)
Join(comps, n) ==
    IF n > Len(comps) THEN << >>
    ELSE (IF n > 1 THEN <<"/">> ELSE << >>) \o comps[n] \o Join(comps, n + 1)

DotDot == <<".", ".">>

\* the loop of posixpath.normpath over the pieces
RECURSIVE NormComps(_, _, _, _)
NormComps(comps, n, initial_slashes, new_comps) ==
    IF n > Len(comps) THEN new_comps
    ELSE IF comps[n] = << >> \/ comps[n] = <<".">>
    THEN NormComps(comps, n + 1, initial_slashes, new_comps)
    ELSE IF \/ comps[n] # DotDot
            \/ (initial_slashes = 0 /\ new_comps = << >>)
            \/ (new_comps # << >> /\ new_comps[Len(new_comps)] = DotDot)
    THEN NormComps(comps, n + 1, initial_slashes, Append(new_comps, comps[n]))
    ELSE IF new_comps # << >>
    THEN NormComps(comps, n + 1, initial_slashes, SubSeq(new_comps, 1, Len(new_comps) - 1))
    ELSE NormComps(comps, n + 1, initial_slashes, new_comps)

\* os.path.normpath
normpath(path) ==
    LET initial_slashes ==
            IF ~StartsWith(path, <<"/">>) THEN 0
            ELSE IF StartsWith(path, <<"/", "/">>) /\ ~StartsWith(path, <<"/", "/", "/">>) THEN 2
            ELSE 1
        joined == [n \in 1..initial_slashes |-> "/"]
                      \o Join(NormComps(Split(path, 1, << >>), 1, initial_slashes, << >>), 1)
    IN  IF path = << >> \/ joined = << >> THEN <<".">> ELSE joined

DirTmp == <<"/", "t", "m", "p">>
DirVarTmp == <<"/", "v", "a", "r", "/", "t", "m", "p">>

\* SecurityManager.validate_file_path; cwd is what os.getcwd() returns
validate_file_path(file_path, cwd) ==
    LET normalized_path == normpath(file_path)
        allowed_dirs == {DirTmp, DirVarTmp, cwd}
    IN  IF Contains(normalized_path, DotDot) THEN FALSE
        ELSE IF StartsWith(normalized_path, <<"/">>)
        THEN \E d \in allowed_dirs : StartsWith(normalized_path, d)
        ELSE TRUE

\* os.path.basename: what follows the last '/'
basename(p) ==
    LET slashes == {n \in 1..Len(p) : p[n] = "/"}
        last == IF slashes = {} THEN 0 ELSE CHOOSE n \in slashes : \A m \in slashes : m <= n
    IN  SubSeq(p, last + 1, Len(p))

Digits == {"0", "1", "2", "3", "4", "5", "6", "7", "8", "9"}

AsciiLetters == {UpperCase[n] : n \in 1..Len(UpperCase)} \cup {LowerCase[n] : n \in 1..Len(LowerCase)}

\* letters outside ASCII: e with acute accent, the ideograph for sun
UnicodeLetters == {"U+00E9", "U+65E5"}

\* the class \w of a str pattern
IsWord(c) == c \in AsciiLetters \cup Digits \cup {"_"} \cup UnicodeLetters

Placeholder == <<"u", "n", "n", "a", "m", "e", "d", "_", "f", "i", "l", "e">>

\* SecurityManager.secure_filename
secure_filename(filename) ==
    LET base == basename(filename)
        cleaned == [n \in 1..Len(base) |->
                       IF IsWord(base[n]) \/ base[n] = "." \/ base[n] = "-" THEN base[n] ELSE "_"]
    IN  IF cleaned = << >> THEN Placeholder ELSE cleaned

\* s.find(c): the first position of c in s, 0 when there is none
Find(s, c) ==
    IF \E n \in 1..Len(s) : s[n] = c
    THEN CHOOSE n \in 1..Len(s) : s[n] = c /\ \A m \in 1..(n - 1) : s[m] # c
    ELSE 0

\* html.escape(s, quote=True), character by character
EscapeChar(c) ==
    CASE c = "&" -> <<"&", "a", "m", "p", ";">>
      [] c = "<" -> <<"&", "l", "t", ";">>
      [] c = ">" -> <<"&", "g", "t", ";">>
      [] c = "\"" -> <<"&", "q", "u", "o", "t", ";">>
      [] c = "'" -> <<"&", "#", "x", "2", "7", ";">>
      [] OTHER -> <<c>>

RECURSIVE html_escape(_)
html_escape(s) == IF s = << >> THEN << >> ELSE EscapeChar(Head(s)) \o html_escape(Tail(s))

\* re.sub(pattern, '', s, flags=re.IGNORECASE) for a pattern of plain
\* lower-case characters: the matches found from left to right in one pass,
\* each search starting where the last match ended
RECURSIVE ReSubDelete(_, _, _)
ReSubDelete(s, pattern, n) ==
    IF n > Len(s) THEN << >>
    ELSE IF /\ n + Len(pattern) - 1 <= Len(s)
            /\ Lower(SubSeq(s, n, n + Len(pattern) - 1)) = pattern
    THEN ReSubDelete(s, pattern, n + Len(pattern))
    ELSE <<s[n]>> \o ReSubDelete(s, pattern, n + 1)

JavascriptColon == <<"j", "a", "v", "a", "s", "c", "r", "i", "p", "t", ":">>

DataColon == <<"d", "a", "t", "a", ":">>

\* SecurityManager.sanitize_input
sanitize_input(input_str) ==
    IF input_str = << >> THEN << >>
    ELSE ReSubDelete(ReSubDelete(html_escape(input_str), JavascriptColon, 1), DataColon, 1)

\* str.lstrip of the blanks urlsplit strips
RECURSIVE LStrip(_)
LStrip(s) == IF s # << >> /\ Head(s) \in {" ", "\t"} THEN LStrip(Tail(s)) ELSE s

\* url.replace(b, "") for the characters urlsplit removes
RECURSIVE RemoveUnsafe(_)
RemoveUnsafe(s) ==
    IF s = << >> THEN << >>
    ELSE IF Head(s) = "\t" THEN RemoveUnsafe(Tail(s))
    ELSE <<Head(s)>> \o RemoveUnsafe(Tail(s))

scheme_chars == AsciiLetters \cup Digits \cup {"+", "-", "."}

\* the bracketed hosts ipaddress.ip_address accepts, among those tried
BracketedHosts == {<<":", ":", "1">>}

\* urllib.parse._splitnetloc(url, 2): the text up to the first of / ? #
\* (NetlocEnd is the position after the last character of the netloc)
NetlocEnd(url) ==
    LET ends == {n \in 3..Len(url) : url[n] \in {"/", "?", "#"}}
    IN  IF ends = {} THEN Len(url) + 1 ELSE CHOOSE n \in ends : \A m \in ends : n <= m

\* urllib.parse.urlparse, as far as its scheme and netloc
urlparse(given) ==
    LET url == RemoveUnsafe(LStrip(given))
        i == Find(url, ":")
        has_scheme == /\ i > 1
                      /\ url[1] \in AsciiLetters
                      /\ \A n \in 1..(i - 1) : url[n] \in scheme_chars
        scheme == IF has_scheme THEN Lower(SubSeq(url, 1, i - 1)) ELSE << >>
        rest == IF has_scheme THEN SubSeq(url, i + 1, Len(url)) ELSE url
        netloc == IF StartsWith(rest, <<"/", "/">>) THEN SubSeq(rest, 3, NetlocEnd(rest) - 1) ELSE << >>
        open == Find(netloc, "[")
        close == Find(netloc, "]")
        after == SubSeq(netloc, open + 1, Len(netloc))
        bracketed_host == SubSeq(after, 1, Find(after, "]") - 1)
    IN  IF (open > 0) # (close > 0) THEN [kind |-> "ValueError", scheme |-> << >>, netloc |-> << >>]
        ELSE IF open > 0 /\ bracketed_host \notin BracketedHosts
        THEN [kind |-> "ValueError", scheme |-> << >>, netloc |-> << >>]
        ELSE [kind |-> "value", scheme |-> scheme, netloc |-> netloc]

SchemeHttp == <<"h", "t", "t", "p">>

SchemeHttps == <<"h", "t", "t", "p", "s">>

\* SecurityManager.validate_url; allowed_domains is self.allowed_domains
validate_url(url, allowed_domains) ==
    LET parsed_url == urlparse(url)
    IN  IF parsed_url.kind # "value" THEN FALSE
        ELSE IF parsed_url.scheme = << >> \/ parsed_url.netloc = << >> THEN FALSE
        ELSE IF parsed_url.scheme \notin {SchemeHttp, SchemeHttps} THEN FALSE
        ELSE IF /\ allowed_domains # << >>
                /\ \A n \in 1..Len(allowed_domains) : allowed_domains[n] # parsed_url.netloc
        THEN FALSE
        ELSE TRUE

allowed_formats == <<"json", "csv", "txt", "yaml", "xml">>

\* SecurityManager.validate_output_format
validate_output_format(format_name) ==
    \E n \in 1..Len(allowed_formats) : allowed_formats[n] = Spell(Lower(format_name))

(***************************************************************************)
(* Calls of the security functions: the strings and working directories    *)
(* tried.                                                                  *)
(***************************************************************************)

\* "../../etc/passwd"
PathTraversal == <<".", ".", "/", ".", ".", "/", "e", "t", "c", "/", "p", "a", "s", "s", "w", "d">>

\* "/home/user/data"
PathHome == <<"/", "h", "o", "m", "e", "/", "u", "s", "e", "r", "/", "d", "a", "t", "a">>

\* "a/../b"
PathInnerDots == <<"a", "/", ".", ".", "/", "b">>

\* "a..b"
PathDotsInName == <<"a", ".", ".", "b">>

\* "/etc/passwd"
PathEtcPasswd == <<"/", "e", "t", "c", "/", "p", "a", "s", "s", "w", "d">>

\* "/etc"
PathEtc == <<"/", "e", "t", "c">>

\* "/tmp/x"
PathTmp == <<"/", "t", "m", "p", "/", "x">>

\* "/tmpfoo/x"
PathTmpFoo == <<"/", "t", "m", "p", "f", "o", "o", "/", "x">>

\* "/tmp/../etc"
PathTmpUp == <<"/", "t", "m", "p", "/", ".", ".", "/", "e", "t", "c">>

\* "data/file"
PathRelative == <<"d", "a", "t", "a", "/", "f", "i", "l", "e">>

\* ""
PathEmpty == << >>

\* ".."
PathUp == <<".", ".">>

\* "/"
PathRoot == <<"/">>

\* "//etc"
PathTwoSlashes == <<"/", "/", "e", "t", "c">>

\* "etc/passwd"
PathEtcRelative == <<"e", "t", "c", "/", "p", "a", "s", "s", "w", "d">>

\* "/srv/app/x"
PathApp == <<"/", "s", "r", "v", "/", "a", "p", "p", "/", "x">>

\* "/srv/apple"
PathApple == <<"/", "s", "r", "v", "/", "a", "p", "p", "l", "e">>

\* "/opt/data"
PathOpt == <<"/", "o", "p", "t", "/", "d", "a", "t", "a">>

\* "./a"
PathDot == <<".", "/", "a">>

\* "/var/tmp/a"
PathVarTmp == <<"/", "v", "a", "r", "/", "t", "m", "p", "/", "a">>

\* "a/b/.."
PathTrailingUp == <<"a", "/", "b", "/", ".", ".">>

\* "/home/user/../x"
PathHomeUp == <<"/", "h", "o", "m", "e", "/", "u", "s", "e", "r", "/", ".", ".", "/", "x">>

PathInputs ==
    {PathTraversal, PathHome, PathInnerDots, PathDotsInName, PathEtcPasswd,
     PathEtc, PathTmp, PathTmpFoo, PathTmpUp, PathRelative,
     PathEmpty, PathUp, PathRoot, PathTwoSlashes, PathEtcRelative,
     PathApp, PathApple, PathOpt, PathDot, PathVarTmp,
     PathTrailingUp, PathHomeUp}

CwdHome == <<"/", "h", "o", "m", "e", "/", "u", "s", "e", "r">>
CwdApp == <<"/", "s", "r", "v", "/", "a", "p", "p">>

CurrentDirs == {CwdHome, CwdApp}

\* "/etc/passwd"
NameEtcPasswd == <<"/", "e", "t", "c", "/", "p", "a", "s", "s", "w", "d">>

\* "../../../etc/passwd"
NameTraversal == <<".", ".", "/", ".", ".", "/", ".", ".", "/", "e", "t", "c", "/", "p", "a", "s", "s", "w", "d">>

\* "my file.txt"
NameSpaces == <<"m", "y", " ", "f", "i", "l", "e", ".", "t", "x", "t">>

\* "cafe-acute.txt"
NameAccent == <<"c", "a", "f", "U+00E9", ".", "t", "x", "t">>

\* "U+65E5.txt"
NameKanji == <<"U+65E5", ".", "t", "x", "t">>

\* "a/b/"
NameTrailingSlash == <<"a", "/", "b", "/">>

\* ""
NameEmpty == << >>

\* "/"
NameRoot == <<"/">>

\* ".."
NameUp == <<".", ".">>

\* "."
NameDot == <<".">>

\* "a\b"
NameBackslash == <<"a", "\\", "b">>

\* "a-b_c.9"
NamePlain == <<"a", "-", "b", "_", "c", ".", "9">>

\* "a/.."
NameInnerUp == <<"a", "/", ".", ".">>

\* "x?y=1"
NameQuery == <<"x", "?", "y", "=", "1">>

\* "README.md"
NameUpper == <<"R", "E", "A", "D", "M", "E", ".", "m", "d">>

NameInputs ==
    {NameEtcPasswd, NameTraversal, NameSpaces, NameAccent, NameKanji,
     NameTrailingSlash, NameEmpty, NameRoot, NameUp, NameDot,
     NameBackslash, NamePlain, NameInnerUp, NameQuery, NameUpper}

\* "https://example.com"
UrlHttps == <<"h", "t", "t", "p", "s", ":", "/", "/", "e", "x", "a", "m", "p", "l", "e", ".", "c", "o", "m">>

\* "http://example.com/path/to/page"
UrlPath == <<"h", "t", "t", "p", ":", "/", "/", "e", "x", "a", "m", "p", "l", "e", ".", "c", "o", "m", "/", "p", "a", "t", "h", "/", "t", "o", "/", "p", "a", "g", "e">>

\* "ftp://example.com"
UrlFtp == <<"f", "t", "p", ":", "/", "/", "e", "x", "a", "m", "p", "l", "e", ".", "c", "o", "m">>

\* "not a url"
UrlWords == <<"n", "o", "t", " ", "a", " ", "u", "r", "l">>

\* "http://"
UrlNoHost == <<"h", "t", "t", "p", ":", "/", "/">>

\* "https://localhost:8080/x"
UrlLocalhost == <<"h", "t", "t", "p", "s", ":", "/", "/", "l", "o", "c", "a", "l", "h", "o", "s", "t", ":", "8", "0", "8", "0", "/", "x">>

\* "http://192.168.0.1"
UrlIPv4 == <<"h", "t", "t", "p", ":", "/", "/", "1", "9", "2", ".", "1", "6", "8", ".", "0", ".", "1">>

\* "http://exa mple.com"
UrlSpaceInHost == <<"h", "t", "t", "p", ":", "/", "/", "e", "x", "a", " ", "m", "p", "l", "e", ".", "c", "o", "m">>

\* "http://-bad-.com"
UrlHyphenLabel == <<"h", "t", "t", "p", ":", "/", "/", "-", "b", "a", "d", "-", ".", "c", "o", "m">>

\* "http://a..b"
UrlEmptyLabel == <<"h", "t", "t", "p", ":", "/", "/", "a", ".", ".", "b">>

\* "HTTP://example.com"
UrlUpperScheme == <<"H", "T", "T", "P", ":", "/", "/", "e", "x", "a", "m", "p", "l", "e", ".", "c", "o", "m">>

\* "http://example.com:port"
UrlWordPort == <<"h", "t", "t", "p", ":", "/", "/", "e", "x", "a", "m", "p", "l", "e", ".", "c", "o", "m", ":", "p", "o", "r", "t">>

\* "http://user@host"
UrlUserInfo == <<"h", "t", "t", "p", ":", "/", "/", "u", "s", "e", "r", "@", "h", "o", "s", "t">>

\* "http://[::1]"
UrlIPv6 == <<"h", "t", "t", "p", ":", "/", "/", "[", ":", ":", "1", "]">>

\* "http://["
UrlOpenBracket == <<"h", "t", "t", "p", ":", "/", "/", "[">>

\* "http://[x]"
UrlBadBracket == <<"h", "t", "t", "p", ":", "/", "/", "[", "x", "]">>

\* "https:example.com"
UrlNoSlashes == <<"h", "t", "t", "p", "s", ":", "e", "x", "a", "m", "p", "l", "e", ".", "c", "o", "m">>

\* "http:///path"
UrlThreeSlashes == <<"h", "t", "t", "p", ":", "/", "/", "/", "p", "a", "t", "h">>

\* "http://?q"
UrlOnlyQuery == <<"h", "t", "t", "p", ":", "/", "/", "?", "q">>

\* ""
UrlEmpty == << >>

\* "javascript://x"
UrlJavascript == <<"j", "a", "v", "a", "s", "c", "r", "i", "p", "t", ":", "/", "/", "x">>

\* "//example.com"
UrlNoScheme == <<"/", "/", "e", "x", "a", "m", "p", "l", "e", ".", "c", "o", "m">>

\* "http://<script>"
UrlTagHost == <<"h", "t", "t", "p", ":", "/", "/", "<", "s", "c", "r", "i", "p", "t", ">">>

\* " http://example.com"
UrlLeadingSpace == <<" ", "h", "t", "t", "p", ":", "/", "/", "e", "x", "a", "m", "p", "l", "e", ".", "c", "o", "m">>

\* "ht<tab>tp://example.com"
UrlTabInScheme == <<"h", "t", "\t", "t", "p", ":", "/", "/", "e", "x", "a", "m", "p", "l", "e", ".", "c", "o", "m">>

\* "example.com"
UrlBare == <<"e", "x", "a", "m", "p", "l", "e", ".", "c", "o", "m">>

\* "http://example.com#f"
UrlFragment == <<"h", "t", "t", "p", ":", "/", "/", "e", "x", "a", "m", "p", "l", "e", ".", "c", "o", "m", "#", "f">>

\* "1http://example.com"
UrlDigitScheme == <<"1", "h", "t", "t", "p", ":", "/", "/", "e", "x", "a", "m", "p", "l", "e", ".", "c", "o", "m">>

\* "http://other.org"
UrlOther == <<"h", "t", "t", "p", ":", "/", "/", "o", "t", "h", "e", "r", ".", "o", "r", "g">>

\* "https://example.com:443"
UrlPort == <<"h", "t", "t", "p", "s", ":", "/", "/", "e", "x", "a", "m", "p", "l", "e", ".", "c", "o", "m", ":", "4", "4", "3">>

UrlInputs ==
    {UrlHttps, UrlPath, UrlFtp, UrlWords, UrlNoHost,
     UrlLocalhost, UrlIPv4, UrlSpaceInHost, UrlHyphenLabel, UrlEmptyLabel,
     UrlUpperScheme, UrlWordPort, UrlUserInfo, UrlIPv6, UrlOpenBracket,
     UrlBadBracket, UrlNoSlashes, UrlThreeSlashes, UrlOnlyQuery, UrlEmpty,
     UrlJavascript, UrlNoScheme, UrlTagHost, UrlLeadingSpace, UrlTabInScheme,
     UrlBare, UrlFragment, UrlDigitScheme, UrlOther, UrlPort}

DomainExample == <<"e", "x", "a", "m", "p", "l", "e", ".", "c", "o", "m">>

\* the settings of self.allowed_domains tried: the default, and one domain
DomainLists == {<< >>, <<DomainExample>>}

\* "<script>"
TextTag == <<"<", "s", "c", "r", "i", "p", "t", ">">>

\* "a&b"
TextAmp == <<"a", "&", "b">>

\* ""x'"
TextQuotes == <<"\"", "x", "'">>

\* "javascript:alert(1)"
TextJavascript == <<"j", "a", "v", "a", "s", "c", "r", "i", "p", "t", ":", "a", "l", "e", "r", "t", "(", "1", ")">>

\* "JaVaScRiPt:x"
TextMixedCase == <<"J", "a", "V", "a", "S", "c", "R", "i", "P", "t", ":", "x">>

\* "data:text"
TextData == <<"d", "a", "t", "a", ":", "t", "e", "x", "t">>

\* "DATA:x"
TextDataUpper == <<"D", "A", "T", "A", ":", "x">>

\* "javajavascript:script:x"
TextNestedJavascript == <<"j", "a", "v", "a", "j", "a", "v", "a", "s", "c", "r", "i", "p", "t", ":", "s", "c", "r", "i", "p", "t", ":", "x">>

\* "dadata:ta:x"
TextNestedData == <<"d", "a", "d", "a", "t", "a", ":", "t", "a", ":", "x">>

\* "jdata:avascript:x"
TextDataInJavascript == <<"j", "d", "a", "t", "a", ":", "a", "v", "a", "s", "c", "r", "i", "p", "t", ":", "x">>

\* ""
TextEmpty == << >>

\* "plain"
TextPlain == <<"p", "l", "a", "i", "n">>

\* "datajavascript::x"
TextJavascriptInData == <<"d", "a", "t", "a", "j", "a", "v", "a", "s", "c", "r", "i", "p", "t", ":", ":", "x">>

\* "&lt;"
TextEntity == <<"&", "l", "t", ";">>

\* "javascript:javascript:x"
TextTwice == <<"j", "a", "v", "a", "s", "c", "r", "i", "p", "t", ":", "j", "a", "v", "a", "s", "c", "r", "i", "p", "t", ":", "x">>

\* "a>b"
TextGreater == <<"a", ">", "b">>

TextInputs ==
    {TextTag, TextAmp, TextQuotes, TextJavascript, TextMixedCase,
     TextData, TextDataUpper, TextNestedJavascript, TextNestedData, TextDataInJavascript,
     TextEmpty, TextPlain, TextJavascriptInData, TextEntity, TextTwice,
     TextGreater}

\* a caller about to call one of the functions on arg, in working directory
\* cwd and with allowed_domains set to domains
InitSecurity ==
    /\ StoreEmpty
    /\ limit = 0
    /\ RaceIdle
    /\ \/ call \in [name : {"validate_file_path"}, arg : PathInputs, cwd : CurrentDirs, domains : {<< >>}]
       \/ call \in [name : {"secure_filename"}, arg : NameInputs, cwd : CurrentDirs, domains : {<< >>}]
       \/ call \in [name : {"sanitize_input"}, arg : TextInputs, cwd : {CwdHome}, domains : {<< >>}]
       \/ call \in [name : {"validate_url"}, arg : UrlInputs, cwd : {CwdHome}, domains : DomainLists]
       \/ call \in [name : {"validate_output_format"}, arg : FormatNames, cwd : {CwdHome}, domains : {<< >>}]
    /\ out = NoCall

ValidateFilePath ==
    /\ call.name = "validate_file_path"
    /\ out = NoCall
    /\ out' = [name |-> "validate_file_path", kind |-> "value",
               val |-> validate_file_path(call.arg, call.cwd)]
    /\ UNCHANGED <<call, storeVars, raceVars>>

SecureFilename ==
    /\ call.name = "secure_filename"
    /\ out = NoCall
    /\ out' = [name |-> "secure_filename", kind |-> "value", val |-> secure_filename(call.arg)]
    /\ UNCHANGED <<call, storeVars, raceVars>>

SanitizeInput ==
    /\ call.name = "sanitize_input"
    /\ out = NoCall
    /\ out' = [name |-> "sanitize_input", kind |-> "value", val |-> sanitize_input(call.arg)]
    /\ UNCHANGED <<call, storeVars, raceVars>>

ValidateUrl ==
    /\ call.name = "validate_url"
    /\ out = NoCall
    /\ out' = [name |-> "validate_url", kind |-> "value",
               val |-> validate_url(call.arg, call.domains)]
    /\ UNCHANGED <<call, storeVars, raceVars>>

ValidateOutputFormat ==
    /\ call.name = "validate_output_format"
    /\ out = NoCall
    /\ out' = [name |-> "validate_output_format", kind |-> "value",
               val |-> validate_output_format(call.arg)]
    /\ UNCHANGED <<call, storeVars, raceVars>>

NextSecurity ==
    \/ ValidateFilePath
    \/ SecureFilename
    \/ SanitizeInput
    \/ ValidateUrl
    \/ ValidateOutputFormat

SpecSecurity == InitSecurity /\ [][NextSecurity]_vars

\* the text of an identifier given by its pieces
Letters ==
    ("a" :> <<"a">>) @@ ("b" :> <<"b">>) @@ (".." :> DotDot)
        @@ ("website" :> <<"w", "e", "b", "s", "i", "t", "e">>)

IdText(identifier) == Join([n \in 1..Len(identifier) |-> Letters[identifier[n]]], 1)

(***************************************************************************)
(* What the claims speak of.                                               *)
(***************************************************************************)
Keys == {Key(t, i) : t \in ValidTypes, i \in Identifiers}

LastKey == Key(op.type, op.id)

\* what load(key) would return in the current state
Loaded(k) == LoadResult(dirs, files, k[1], k[2])

SaveReturned == op.name = "save" /\ ret.kind = "value"

\* the identifiers list(scraper_type) reports
ListedIds(scraper_type) ==
    {<<name>> : name \in {x \in ListDir(dirs, files, TypeDir(scraper_type)) :
                              ListEntry(dirs, files, scraper_type, x) # << >>}}

\* the document stored for a key is there and does not parse
Corrupt(k) ==
    LET sp == get_storage_path(k[1], k[2])
        r == Resolve(dirs, Append(sp.path, DataFile), 1, << >>)
    IN  r.ok /\ r.loc \in DOMAIN files /\ ~files[r.loc].complete

\* no document is stored for a key
Missing(k) ==
    LET sp == get_storage_path(k[1], k[2])
        r == Resolve(dirs, Append(sp.path, DataFile), 1, << >>)
    IN  ~r.ok \/ r.loc \notin DOMAIN files

RetIds == {ret.val[n].identifier : n \in 1..Len(ret.val)}

C2_FullOverwrite ==
    SaveReturned =>
        /\ Loaded(LastKey).kind = "value"
        /\ DOMAIN Loaded(LastKey).val = (DOMAIN op.data) \cup {"saved_at"}

C2_Witness ==
    /\ SaveReturned
    /\ pre.load = "value"
    /\ pre.keys \ ((DOMAIN op.data) \cup {"saved_at"}) # {}

(***************************************************************************)
(* C3.  Every record present at a key that has been saved holds a saved_at *)
(* equal to the time of the most recent save to that (type, identifier).   *)
(***************************************************************************)
C3_SavedAtIsLastSave ==
    \A k \in Keys :
        (k \in DOMAIN savedAt /\ Loaded(k).kind = "value") =>
            /\ "saved_at" \in DOMAIN Loaded(k).val
            /\ Loaded(k).val["saved_at"] = Str(IsoFormat(savedAt[k]))

(***************************************************************************)
(* C4.  Idempotent delete: a delete on a key at which load would return    *)
(* absent returns false and does not raise; on a key that holds a record   *)
(* it returns true, and repeated at once it returns false.                 *)
(***************************************************************************)
C4_IdempotentDelete ==
    (op.name = "delete" /\ op.type \in ValidTypes) =>
        /\ ret.kind = "value"
        /\ pre.load = "None" => ret.val = FALSE
        /\ pre.load = "value" => ret.val = TRUE
        /\ pre.again => ret.val = FALSE

(***************************************************************************)
(* C5.  After delete(type, id) has returned true and until the next        *)
(* save(type, id, _), load(type, id) returns absent and list(type) has no  *)
(* entry for id.                                                           *)
(***************************************************************************)
C5_DeletedStaysAbsent ==
    \A k \in deleted :
        /\ Loaded(k).kind = "None"
        /\ k[2] \notin ListedIds(k[1])

(***************************************************************************)
(* C6.  Listing completeness: when the store started empty and every call  *)
(* so far was a save that returned (or a load or a list), list(type) has   *)
(* exactly one entry per identifier saved under that type.                 *)
(***************************************************************************)
C6_ListingComplete ==
    onlySaves =>
        \A t \in ValidTypes :
            /\ ListedIds(t) = {i \in Identifiers : Key(t, i) \in DOMAIN savedAt}
            /\ (op.name = "list" /\ op.type = t) =>
                  /\ ret.kind = "value"
                  /\ Len(ret.val) = Cardinality({i \in Identifiers : Key(t, i) \in DOMAIN savedAt})
                  /\ \A n \in 1..Len(ret.val) :
                        /\ ret.val[n].scraper_type = t
                        /\ ret.val[n].summary = _generate_summary(t, Loaded(Key(t, ret.val[n].identifier)).val).val

(***************************************************************************)
(* C7.  A load with an enumerated type never raises: it returns absent     *)
(* when no document is stored at the key and when the stored document does *)
(* not parse, and it touches nothing in the store.                         *)
(***************************************************************************)
C7_LoadNeverRaises ==
    (op.name = "load" /\ op.type \in ValidTypes) =>
        /\ ret.kind \in {"value", "None"}
        /\ (Missing(LastKey) \/ Corrupt(LastKey)) => ret.kind = "None"
        /\ pre.touched = {}

C7_Witness ==
    /\ op.name = "load"
    /\ op.type \in ValidTypes
    /\ Corrupt(LastKey)
    /\ ret.kind = "None"

(***************************************************************************)
(* C8.  Failure containment in listing: when some identifier of a type     *)
(* holds a document that does not parse, list(type) does not raise, has no *)
(* entry for such an identifier and has an entry for every identifier (of  *)
(* one path component) whose record load returns.                          *)
(***************************************************************************)
C8_ListingContainsFailures ==
    (/\ op.name = "list"
     /\ op.type \in ValidTypes
     /\ \E i \in Identifiers : Corrupt(Key(op.type, i))) =>
        /\ ret.kind = "value"
        /\ \A i \in Identifiers :
              /\ Corrupt(Key(op.type, i)) => i \notin RetIds
              /\ (Len(i) = 1 /\ Loaded(Key(op.type, i)).kind = "value") => i \in RetIds

(***************************************************************************)
(* C9.  A save with a type outside the enumerated set fails with the       *)
(* invalid-type error (ValueError) and touches nothing in the store.       *)
(***************************************************************************)
C9_InvalidTypeRejected ==
    (op.name = "save" /\ op.type \notin ValidTypes) =>
        /\ ret.kind = "ValueError"
        /\ pre.touched = {}

C9_Witness ==
    /\ op.name = "save"
    /\ op.type \notin ValidTypes
    /\ ret.kind = "ValueError"
    /\ DOMAIN files # {}

(***************************************************************************)
(* C10.  A save whose identifier does not pass path validation fails with  *)
(* the unsafe-identifier error and writes nothing, and no save creates or  *)
(* writes a location outside the directory of its type, base/<type>, hence *)
(* none outside base/<type>/<identifier>.                                  *)
(***************************************************************************)
C10_UnsafeIdentifierRejected ==
    (op.name = "save" /\ op.type \in ValidTypes) =>
        /\ ~validate_file_path(IdText(op.id), CwdHome) => (ret.kind = "UnsafeIdentifier" /\ pre.touched = {})
        /\ \A loc \in pre.touched : IsPrefix(TypeDir(op.type), loc)

(***************************************************************************)
(* C11.  load and list are read-only: a step that is a load or a list      *)
(* leaves every directory and every document as it was, so that for every  *)
(* (type, identifier) the storage path exists or not as before and a load  *)
(* returns what it would have returned before.                             *)
(***************************************************************************)
C11_ReadsAreReadOnly ==
    [][(nops' = nops + 1 /\ op'.name \in {"load", "list"}) =>
          /\ dirs' = dirs
          /\ files' = files
          /\ \A k \in Keys :
                /\ LoadResult(dirs', files', k[1], k[2]) = LoadResult(dirs, files, k[1], k[2])
                /\ PathExists(dirs', files', get_storage_path(k[1], k[2]).path)
                      = PathExists(dirs, files, get_storage_path(k[1], k[2]).path)]_vars

C11_Witness ==
    /\ op.name = "list"
    /\ ret.kind = "value"
    /\ Len(ret.val) > 0
    /\ \E k \in Keys : Loaded(k).kind = "value"

(***************************************************************************)
(* C12.  A load or a list that runs while the same storage path is being   *)
(* saved never raises; the load returns absent or a complete record that   *)
(* was passed to some save of that key, never a partial or a mixed one,    *)
(* and the list has either no entry for the key or the entry of such a     *)
(* record.                                                                 *)
(***************************************************************************)
C12_ReadsSeeWholeRecords ==
    (reader.pc = "done" /\ reader.mid) =>
        /\ reader.ret.kind \in {"value", "None"}
        /\ (reader.mode = "load" /\ reader.ret.kind = "value") => reader.ret.val \in passed
        /\ reader.mode = "list" =>
              /\ reader.ret.kind = "value"
              /\ \/ reader.ret.val = << >>
                 \/ \E r \in passed : reader.ret.val = RaceEntry(r)

(***************************************************************************)
(* What the claims on convert speak of.                                    *)
(***************************************************************************)
Converted == call.name = "convert" /\ out.name = "convert"

Requested(fmt) == \E n \in 1..Len(call.formats) : call.formats[n] = fmt

\* the supported name a requested name stands for, letter case aside
KeyOf(fmt) ==
    IF fmt \in {FmtJson, FmtJsonUpper} THEN "json"
    ELSE IF fmt = FmtCsv THEN "csv"
    ELSE IF fmt = FmtTxt THEN "txt"
    ELSE IF fmt = FmtYaml THEN "yaml"
    ELSE IF fmt = FmtXml THEN "xml"
    ELSE "none"

RequestedKeys == {KeyOf(call.formats[n]) : n \in 1..Len(call.formats)} \cap Supported

\* the content convert wrote for a format
Output(name) == out.written[OutputPath(call.base, name)]

HasOutput(name) == OutputPath(call.base, name) \in DOMAIN out.written

(***************************************************************************)
(* C13.  An unknown format name never makes convert raise: when convert    *)
(* returns, the result has a key for exactly the requested names that are, *)
(* letter case aside, one of json, csv, txt, yaml, xml, the key being the  *)
(* lower-case name and its value <basename>.<name>; a call that requests   *)
(* only unknown names returns the empty mapping; and when convert raises,  *)
(* the conversion of one of the supported names requested raised.          *)
(***************************************************************************)
C13_UnknownFormatSkipped ==
    Converted =>
        /\ out.kind = "value" =>
              /\ DOMAIN out.results = RequestedKeys
              /\ \A k \in DOMAIN out.results : out.results[k] = OutputPath(call.base, k)
        /\ RequestedKeys = {} => (out.kind = "value" /\ out.results = << >>)
        /\ out.kind # "value" =>
              \E n \in 1..Len(call.formats) :
                  /\ KeyOf(call.formats[n]) \in Supported
                  /\ ConvertOne(call.data, call.formats[n], call.base)[1].kind = out.kind

C13_Witness ==
    /\ Converted
    /\ Requested(FmtExe)
    /\ Requested(FmtJsonUpper)
    /\ out.kind = "value"
    /\ DOMAIN out.results = {"json"}

(***************************************************************************)
(* C14.  Conversion never raises for reasons of shape: for every mapping   *)
(* and every list of format names, convert returns, and every supported    *)
(* format requested has its output.                                        *)
(***************************************************************************)
C14_NeverRaisesOnShape ==
    Converted =>
        /\ out.kind = "value"
        /\ \A k \in RequestedKeys : HasOutput(k)

(***************************************************************************)
(* C15.  convert does not mutate its input: the caller's mapping after the *)
(* call, whether it returned or raised, equals the mapping before it, item *)
(* for item and in the same order.                                         *)
(***************************************************************************)
C15_InputNotMutated == Converted => out.data = call.data

C15_Witness ==
    /\ Converted
    /\ call.data = ValCollide
    /\ out.kind = "value"
    /\ HasOutput("csv")
    /\ Output("csv").lines = <<<<"a_b">>, <<"2">>>>

(***************************************************************************)
(* C16.  CSV tie-break: when some top-level field is a sequence whose      *)
(* elements are all mappings, the tabular output is the first such field   *)
(* and nothing else: the header is the keys of its first element and there *)
(* is one row per element, in order, holding that element's values.        *)
(***************************************************************************)
IsRowSequence(v) == v.kind = "list" /\ \A m \in 1..Len(v.items) : v.items[m].val.kind = "dict"

FirstRowSequence(data) ==
    IF \E n \in 1..Len(data.items) : IsRowSequence(data.items[n].val)
    THEN CHOOSE n \in 1..Len(data.items) :
             /\ IsRowSequence(data.items[n].val)
             /\ \A m \in 1..(n - 1) : ~IsRowSequence(data.items[m].val)
    ELSE 0

RowCells(header, element) ==
    [n \in 1..Len(header) |->
        IF HasKey(element.items, header[n]) THEN CsvCell(DictGet(element.items, header[n], VNull)) ELSE ""]

RowsOf(elements) ==
    IF elements = << >> THEN << >>
    ELSE <<DictKeys(elements[1].val.items)>>
         \o [m \in 1..Len(elements) |-> RowCells(DictKeys(elements[1].val.items), elements[m].val)]

C16_CsvTieBreak ==
    (Converted /\ Requested(FmtCsv) /\ FirstRowSequence(call.data) # 0) =>
        /\ out.kind = "value"
        /\ Output("csv").lines = RowsOf(call.data.items[FirstRowSequence(call.data)].val.items)

(***************************************************************************)
(* C17.  Flatten fallback: when no top-level field is a sequence of        *)
(* mappings, the tabular output is one header row and one data row, the    *)
(* mapping flattened: the key of a nested mapping joined to its parent's   *)
(* with "_", a sequence of scalars joined with ", ", any other sequence    *)
(* stringified whole.  The Key,Value dump is written only when flattening  *)
(* the mapping yields no column.                                           *)
(***************************************************************************)
RECURSIVE Flattened(_, _, _, _)
Flattened(items, n, prefix, acc) ==
    IF n > Len(items) THEN acc
    ELSE LET v == items[n].val
             name == prefix \o items[n].key
         IN  Flattened(items, n + 1, prefix,
                 IF v.kind = "dict" THEN Flattened(v.items, 1, name \o "_", acc)
                 ELSE IF v.kind = "list" /\ \A m \in 1..Len(v.items) : IsScalar(v.items[m].val)
                 THEN DictSet(acc, name, VStr(JoinStr(v.items, 1)))
                 ELSE IF v.kind = "list" THEN DictSet(acc, name, VStr(PyStr(v)))
                 ELSE DictSet(acc, name, v))

FlatRow(data) == Flattened(data.items, 1, "", << >>)

IsKeyValueDump(lines) == lines # << >> /\ lines[1] = <<"Key", "Value">>

C17_FlattenFallback ==
    (Converted /\ Requested(FmtCsv)) =>
        /\ FirstRowSequence(call.data) = 0 =>
              /\ out.kind = "value"
              /\ Output("csv").lines =
                    <<DictKeys(FlatRow(call.data)),
                      [n \in 1..Len(FlatRow(call.data)) |-> CsvCell(FlatRow(call.data)[n].val)]>>
        /\ (out.kind = "value" /\ IsKeyValueDump(Output("csv").lines)) => FlatRow(call.data) = << >>

(***************************************************************************)
(* C18.  Indented text: a key of a mapping at nesting level d is written   *)
(* at indent 2*d; a mapping value is "key:" and then its block one level   *)
(* deeper; a sequence is "key:" and then each element at indent +2 after   *)
(* "- ", an element that is a mapping being a "- " line and then its block *)
(* at indent +4; a scalar is "key: value".  {"a": {"b": 1}} gives          *)
(* "a:\n  b: 1\n".                                                         *)
(***************************************************************************)
TextLine(indent, text) == Spaces(indent) \o text \o "\n"

RECURSIVE TextBlock(_, _, _), TextElements(_, _, _)
TextElements(elements, m, d) ==
    IF m > Len(elements) THEN ""
    ELSE (IF elements[m].val.kind = "dict"
          THEN TextLine(2 * d + 2, "- ") \o TextBlock(elements[m].val.items, 1, d + 2)
          ELSE TextLine(2 * d + 2, "- " \o PyStr(elements[m].val)))
         \o TextElements(elements, m + 1, d)

TextBlock(items, n, d) ==
    IF n > Len(items) THEN ""
    ELSE (IF items[n].val.kind = "dict"
          THEN TextLine(2 * d, items[n].key \o ":") \o TextBlock(items[n].val.items, 1, d + 1)
          ELSE IF items[n].val.kind = "list"
          THEN TextLine(2 * d, items[n].key \o ":") \o TextElements(items[n].val.items, 1, d)
          ELSE TextLine(2 * d, items[n].key \o ": " \o PyStr(items[n].val)))
         \o TextBlock(items, n + 1, d)

C18_IndentedText ==
    (Converted /\ Requested(FmtTxt)) =>
        /\ HasOutput("txt") => Output("txt").lines = <<<<TextBlock(call.data.items, 1, 0)>>>>
        /\ out.kind = "value" => HasOutput("txt")
        /\ (call.data = ValNested /\ HasOutput("txt")) => Output("txt").lines = <<<<"a:\n  b: 1\n">>>>

C18_Witness ==
    /\ Converted
    /\ Requested(FmtTxt)
    /\ call.data = ValDeep
    /\ HasOutput("txt")
    /\ Output("txt").lines = <<<<"a:\n  b:\n    - \n      c:\n        d: 1\n">>>>


Validated == out.name = "validate_file_path"

\* one of the pieces of the path between its slashes is '..'
HasTraversalSegment(path) ==
    \E n \in 1..Len(Split(path, 1, << >>)) : Split(path, 1, << >>)[n] = DotDot

IsRelative(path) == ~StartsWith(path, <<"/">>)

\* the path is the directory or lies underneath it
Under(path, dir) == path = dir \/ StartsWith(path, dir \o <<"/">>)

DirEtc == <<"/", "e", "t", "c">>

\* C19: validatePath rejects every path with a '..' traversal segment and
\* every path that after normalization is, or lies underneath, a sensitive
\* system directory (of which /etc is one), and accepts every other path (a
\* relative path without a traversal segment is such a path); in particular
\* "../../etc/passwd" is rejected and "/home/user/data" is accepted.
C19_PathValidation ==
    Validated =>
        /\ HasTraversalSegment(call.arg) => ~out.val
        /\ Under(normpath(call.arg), DirEtc) => ~out.val
        /\ (IsRelative(call.arg) /\ ~HasTraversalSegment(call.arg)) => out.val
        /\ call.arg = PathTraversal => ~out.val
        /\ call.arg = PathHome => out.val

Secured == out.name = "secure_filename"

AllowedChars == AsciiLetters \cup Digits \cup {"_", ".", "-"}

FinalSegment(s) == Split(s, 1, << >>)[Len(Split(s, 1, << >>))]

\* C20: secureFilename keeps only the final path segment of its input,
\* replaces every character outside [A-Za-z0-9_.-] with '_', and returns a
\* fixed placeholder name when the result would be empty; for "/etc/passwd"
\* it returns "passwd".
C20_SecureFilename ==
    Secured =>
        /\ out.val =
               IF FinalSegment(call.arg) = << >> THEN Placeholder
               ELSE [n \in 1..Len(FinalSegment(call.arg)) |->
                        IF FinalSegment(call.arg)[n] \in AllowedChars
                        THEN FinalSegment(call.arg)[n] ELSE "_"]
        /\ call.arg = NameEtcPasswd => out.val = <<"p", "a", "s", "s", "w", "d">>


(***************************************************************************)
(* What the claims on the safety functions speak of.                       *)
(***************************************************************************)
Sanitized == out.name = "sanitize_input"

Entities ==
    {EscapeChar("&"), EscapeChar("<"), EscapeChar(">"), EscapeChar("\""), EscapeChar("'")}

\* the & at position n of s begins an entity
BeginsEntity(s, n) ==
    \E e \in Entities : n + Len(e) - 1 <= Len(s) /\ SubSeq(s, n, n + Len(e) - 1) = e

(***************************************************************************)
(* C21.  sanitizeInput neutralizes script-injection vectors: for every     *)
(* input, the output has no raw <, >, double or single quote, no & that    *)
(* does not begin an entity, and contains neither "javascript:" nor        *)
(* "data:" in any letter case.                                             *)
(***************************************************************************)
C21_SanitizeNeutralizes ==
    Sanitized =>
        /\ \A n \in 1..Len(out.val) : out.val[n] \notin {"<", ">", "\"", "'"}
        /\ \A n \in 1..Len(out.val) : out.val[n] = "&" => BeginsEntity(out.val, n)
        /\ ~Contains(Lower(out.val), JavascriptColon)
        /\ ~Contains(Lower(out.val), DataColon)


UrlValidated == out.name = "validate_url"

HostChars == AsciiLetters \cup Digits \cup {"-", "."}

\* a domain, localhost or dotted IPv4 by its syntax: labels of letters,
\* digits and hyphens separated by dots, no label empty, none beginning or
\* ending with a hyphen
WellFormedHost(h) ==
    /\ h # << >>
    /\ \A n \in 1..Len(h) : h[n] \in HostChars
    /\ h[1] \notin {"-", "."}
    /\ h[Len(h)] \notin {"-", "."}
    /\ \A n \in 1..(Len(h) - 1) :
          /\ ~(h[n] \in {"-", "."} /\ h[n + 1] = ".")
          /\ ~(h[n] = "." /\ h[n + 1] = "-")

\* host, or host:port with a port of digits
WellFormedAuthority(a) ==
    IF Find(a, ":") = 0 THEN WellFormedHost(a)
    ELSE /\ WellFormedHost(SubSeq(a, 1, Find(a, ":") - 1))
         /\ Find(a, ":") < Len(a)
         /\ \A n \in (Find(a, ":") + 1)..Len(a) : a[n] \in Digits

HttpPrefixes == {SchemeHttp \o <<":", "/", "/">>, SchemeHttps \o <<":", "/", "/">>}

\* the text between the prefix and the first / ? # after it
AuthorityAfter(url, prefix) ==
    LET ends == {n \in (Len(prefix) + 1)..Len(url) : url[n] \in {"/", "?", "#"}}
        end == IF ends = {} THEN Len(url) + 1 ELSE CHOOSE n \in ends : \A m \in ends : n <= m
    IN  SubSeq(url, Len(prefix) + 1, end - 1)

\* the URL with its leading blanks and its tabs taken out
Trimmed(url) == RemoveUnsafe(LStrip(url))

HasHttpScheme(url) ==
    \E p \in {SchemeHttp \o <<":">>, SchemeHttps \o <<":">>} : StartsWith(Lower(Trimmed(url)), p)

WellFormedUrl(url) ==
    \E p \in HttpPrefixes :
        /\ StartsWith(Lower(Trimmed(url)), p)
        /\ WellFormedAuthority(AuthorityAfter(Trimmed(url), p))

(***************************************************************************)
(* C22.  validateUrl returns true only for strings whose scheme is http or *)
(* https and whose authority is well-formed (a domain, localhost or dotted *)
(* IPv4, with an optional port; leading blanks aside, and without holding  *)
(* the numbers of an IPv4 address to their range); it returns false for    *)
(* every other scheme, as for "ftp://example.com", and for "not a url".    *)
(***************************************************************************)
C22_UrlValidation ==
    UrlValidated =>
        /\ out.val => WellFormedUrl(call.arg)
        /\ ~HasHttpScheme(call.arg) => ~out.val
        /\ call.arg = UrlFtp => ~out.val
        /\ call.arg = UrlWords => ~out.val


\* a document is stored for key k in the store of directories ds and documents fs
HasDocument(ds, fs, k) ==
    LET r == Resolve(ds, Append(get_storage_path(k[1], k[2]).path, DataFile), 1, << >>)
    IN  r.ok /\ r.loc \in DOMAIN fs

(***************************************************************************)
(* C23.  Key isolation: a save or a delete on (c, i) changes only that     *)
(* key; for every other pair (c', i'), of the same or another category,    *)
(* whether a document is stored for it, the document stored and what       *)
(* load(c', i') returns are the same after the call as before it.          *)
(***************************************************************************)
C23_KeyIsolation ==
    [][(nops' = nops + 1 /\ op'.name \in {"save", "delete"} /\ op'.type \in ValidTypes) =>
          \A k \in Keys \ {Key(op'.type, op'.id)} :
              /\ HasDocument(dirs', files', k) = HasDocument(dirs, files, k)
              /\ LoadResult(dirs', files', k[1], k[2]) = LoadResult(dirs, files, k[1], k[2])]_vars


\* the fields of the summary of a category
SummaryFields(scraper_type) ==
    CASE scraper_type = "github" -> {"name", "owner", "files_count", "issues_count"}
      [] scraper_type = "website" -> {"domain", "pages_crawled", "assets_downloaded"}
      [] scraper_type = "youtube" -> {"handle", "videos_count"}

\* the top-level counters of a category, which default to 0
CountFields(scraper_type) ==
    CASE scraper_type = "github" -> {"files_count", "issues_count"}
      [] scraper_type = "website" -> {"pages_crawled", "assets_downloaded"}
      [] scraper_type = "youtube" -> {"videos_count"}

(***************************************************************************)
(* C24.  For every identifier (of one path component) whose stored record  *)
(* parses, whatever the shape of its fields, list(type) does not raise and *)
(* has an entry for it whose summary has exactly the fields of the type,   *)
(* the counters the record lacks being 0, and whose saved_at is that of    *)
(* the record or 'unknown'.                                                *)
(***************************************************************************)
C24_SummaryWhateverShape ==
    (op.name = "list" /\ op.type \in ValidTypes) =>
        /\ ret.kind = "value"
        /\ \A i \in Identifiers :
              (Len(i) = 1 /\ Loaded(Key(op.type, i)).kind = "value") =>
                  \E n \in 1..Len(ret.val) :
                      /\ ret.val[n].identifier = i
                      /\ ret.val[n].saved_at = Get(Loaded(Key(op.type, i)).val, "saved_at", Str("unknown"))
                      /\ DOMAIN ret.val[n].summary = SummaryFields(op.type)
                      /\ \A f \in CountFields(op.type) :
                            ret.val[n].summary[f] = Get(Loaded(Key(op.type, i)).val, f, Num("0"))


\* the place of a category in the order of the listing
TypeIndex(scraper_type) == CHOOSE n \in 1..Len(ScraperTypes) : ScraperTypes[n] = scraper_type

\* list(scraper_type) in the current state, the directories read in order o
ListedOne(scraper_type, o) == ListOne(dirs, files, scraper_type, o[scraper_type])

(***************************************************************************)
(* C25.  list with no category returns the concatenation of list(github),  *)
(* list(website), list(youtube) in that order: it returns when each of the *)
(* three does, its length is the sum of their lengths, every entry carries *)
(* the category under whose directory it was found, and the entries of a   *)
(* category never come before those of an earlier one.                     *)
(***************************************************************************)
C25_ListAllConcatenates ==
    (op.name = "list" /\ op.type = NoType) =>
        /\ ret.kind = "value" <=>
              \A t \in ValidTypes, o \in ListOrders(dirs, files) : ListedOne(t, o).kind = "value"
        /\ ret.kind = "value" =>
              /\ \E o \in ListOrders(dirs, files) :
                    ret.val = ListedOne("github", o).val \o ListedOne("website", o).val
                                  \o ListedOne("youtube", o).val
              /\ \A o \in ListOrders(dirs, files) :
                    Len(ret.val) = Len(ListedOne("github", o).val) + Len(ListedOne("website", o).val)
                                       + Len(ListedOne("youtube", o).val)
              /\ \A n \in 1..Len(ret.val) :
                    /\ ret.val[n].scraper_type \in ValidTypes
                    /\ IsPrefix(TypeDir(ret.val[n].scraper_type), ret.val[n].path)
              /\ \A m, n \in 1..Len(ret.val) :
                    m < n => TypeIndex(ret.val[m].scraper_type) <= TypeIndex(ret.val[n].scraper_type)

C25_Witness ==
    /\ op.name = "list"
    /\ op.type = NoType
    /\ ret.kind = "value"
    /\ Len(ret.val) = 2
    /\ ret.val[1].scraper_type = "github"
    /\ ret.val[2].scraper_type = "website"


\* the data path of key k exists and is not a document that can be opened
Unreadable(k) ==
    LET data_path == Append(get_storage_path(k[1], k[2]).path, DataFile)
    IN  /\ PathExists(dirs, files, data_path)
        /\ Resolve(dirs, data_path, 1, << >>).loc \notin DOMAIN files

(***************************************************************************)
(* C26.  A genuine I/O failure is distinguishable from not-found: a load   *)
(* whose data path exists and cannot be opened, and a delete whose storage *)
(* path exists and cannot be removed, raise instead of returning the       *)
(* absent / false result, which is kept for a key at which nothing exists  *)
(* (and, for load, for a document that does not parse).                    *)
(***************************************************************************)
C26_IOFailureDistinct ==
    /\ (op.name = "load" /\ op.type \in ValidTypes /\ Unreadable(LastKey)) =>
           ret.kind \notin {"value", "None"}
    /\ (op.name = "delete" /\ op.type \in ValidTypes /\ pre.exists) =>
           ~(ret.kind = "value" /\ ~ret.val)
    /\ (op.name = "delete" /\ op.type \in ValidTypes /\ ~pre.exists) =>
           (ret.kind = "value" /\ ~ret.val)

(***************************************************************************)
(* C30.  After any sequence of saves and deletes with enumerated           *)
(* categories and identifiers the store accepts, list(category) for each   *)
(* enumerated category and list() with no category return without         *)
(* raising; on a freshly constructed store they return the empty sequence. *)
(***************************************************************************)
C30_ListNeverRaises ==
    (op.name = "list" /\ op.type \in ValidTypes \cup {NoType}) =>
        /\ ret.kind = "value"
        /\ nops = 1 => ret.val = << >>


(***************************************************************************)
(* C27.  The safety functions are pure and total: every call returns       *)
(* without raising, and the result depends on the argument only, so the    *)
(* same call made in another working directory or with another setting of  *)
(* the allowed domains returns the same result.                            *)
(***************************************************************************)
C27_PureAndTotal ==
    out.name \in {"validate_url", "sanitize_input", "secure_filename", "validate_file_path",
                  "validate_output_format"} =>
        /\ out.kind = "value"
        /\ Validated => \A cwd \in CurrentDirs : validate_file_path(call.arg, cwd) = out.val
        /\ UrlValidated => \A d \in DomainLists : validate_url(call.arg, d) = out.val

(***************************************************************************)
(* C29.  secureFilename(s) is safe to use as one path segment: it is not   *)
(* empty, has no path separator, is neither "." nor "..", passes           *)
(* validatePath, and securing it again leaves it as it is.                 *)
(***************************************************************************)
C29_FilenameIsSafeSegment ==
    Secured =>
        /\ out.val # << >>
        /\ Find(out.val, "/") = 0
        /\ out.val \notin {<<".">>, DotDot}
        /\ validate_file_path(out.val, call.cwd)
        /\ secure_filename(out.val) = out.val


(***************************************************************************)
(* What the claim on the facade speaks of                                  *)
(***************************************************************************)
\* where the document of the scrape under way is kept
StoredAt ==
    Append(MakeDirs(dirs, files, get_storage_path(call.type, <<call.identifier>>).path, 1, << >>).loc,
           DataFile)

\* the saved_at of the record the caller holds
ReturnedSavedAt == DictGet(out.data.items, "saved_at", VNull).str

\* the saved_at of the stored record
StoredSavedAt == files[StoredAt].data["saved_at"].str

\* an output file carries saved_at with the text t: as a key of the json
\* or yaml tree, as a child element of the xml root, as a column or a
\* Key,Value row of the csv, as the last line of the txt
Carries(content, t) ==
    CASE content.form \in {"json", "yaml"} ->
            /\ HasKey(content.tree.items, "saved_at")
            /\ DictGet(content.tree.items, "saved_at", VNull).str = t
      [] content.form = "xml" ->
            \E n \in 1..Len(content.tree.items) :
                content.tree.items[n].val = Elem("saved_at", <<Item("", TextNode(t))>>)
      [] content.form = "csv" ->
            \/ /\ Len(content.lines) = 2
               /\ \E c \in 1..Len(content.lines[1]) :
                      content.lines[1][c] = "saved_at" /\ content.lines[2][c] = t
            \/ /\ content.lines[1] = <<"Key", "Value">>
               /\ \E r \in 2..Len(content.lines) : content.lines[r] = <<"saved_at", t>>
      [] content.form = "txt" ->
            \E d \in Fetched(call.type) :
                content.lines = <<<<_write_dict_as_text(d, 0) \o "saved_at: " \o t \o "\n">>>>

\* C28: in a scrape operation of the facade the record is saved before it is
\* converted and save stamps the caller's own record: no output is written
\* before the record is stored, once save has returned the record the caller
\* holds and the stored record have the same saved_at, every output written
\* by the conversion carries that saved_at, and a scrape whose save failed
\* has written no output and listed none.
C28_SaveBeforeConvert ==
    call.name = "scrape" /\ call.pc # "idle" =>
        /\ out.written # << >> => out.stamp # "none" /\ StoredAt \in DOMAIN files
        /\ call.pc \in {"saved", "returned"} =>
               /\ StoredAt \in DOMAIN files
               /\ ReturnedSavedAt = out.stamp
               /\ StoredSavedAt = out.stamp
        /\ call.pc = "returned" =>
               /\ \A p \in DOMAIN out.written : Carries(out.written[p], StoredSavedAt)
               /\ \A f \in DOMAIN out.results : out.results[f] \in DOMAIN out.written
        /\ call.pc = "raised" /\ out.stamp = "none" =>
               out.written = << >> /\ out.results = << >>

\* a second scrape has returned with two outputs, saved after the clock moved
C28_Witness ==
    /\ call.name = "scrape"
    /\ call.pc = "returned"
    /\ call.scrapes = 2
    /\ out.stamp = IsoFormat(1)
    /\ Cardinality(DOMAIN out.written) = 2
    /\ Cardinality(DOMAIN out.results) = 2

====
